---- MODULE Spec2Model ----
(***************************************************************************)
(* Quantioa decision-and-execution pipeline: the risk framework (ATR       *)
(* trailing stops, daily loss latch), the TWAP/VWAP child-order            *)
(* schedulers with fill recording, and the trading loop run against the    *)
(* paper-fill broker or a broker over a network.                           *)
(*                                                                         *)
(* Units.  Prices, ATR values and P&L amounts are integers in thousandths  *)
(* of a currency unit ("mills"), so round(x, 2) is a real rounding to a    *)
(* multiple of 10 mills.  Indicator and order-flow readings are integers   *)
(* in hundredths; the strength and confidence of a signal are integers in  *)
(* ten-thousandths, as round(x, 4) leaves them.                            *)
(***************************************************************************)
EXTENDS Integers, Sequences, FiniteSets, TLC

VARIABLES
    stops,        \* PositionRiskManager._stops : symbol -> StopLevel | NoStop
    daily_pnl,    \* DailyLimitTracker._daily_pnl
    halted,       \* DailyLimitTracker._halted
    parent,       \* the ParentOrder under execution, with its children
    partial_seen, \* history: some record_fill on parent filled less than the child
    loop,         \* TradingLoop: configuration and position state
    stats,        \* TradingLoop.stats (LoopStats)
    kelly_trades, \* KellyCriterionSizer._trades
    broker,       \* the BrokerAdapter the loop was built with
    tasks,        \* the process_tick / process_ai_intent calls in flight
    calls,        \* history: how many calls of each handler have been made
    instances,    \* the TradingLoops of a process with one loop per symbol
    clock,        \* time.time(), in seconds
    op            \* the last completed call and what it returned

riskVars == <<stops, daily_pnl, halted>>

execVars == <<parent, partial_seen>>

loopVars == <<loop, stats, kelly_trades, broker, tasks, calls, instances, clock>>

vars == <<stops, daily_pnl, halted, parent, partial_seen,
          loop, stats, kelly_trades, broker, tasks, calls, instances, clock, op>>

-----------------------------------------------------------------------------
(* Arithmetic helpers                                                      *)

Abs(x) == IF x < 0 THEN -x ELSE x

Max(a, b) == IF a >= b THEN a ELSE b

Min(a, b) == IF a <= b THEN a ELSE b

\* Python's round() of the exact quotient n/d (d > 0): nearest integer, an
\* exact half going to the even neighbour.
RoundHalfEven(n, d) ==
    LET q == n \div d
        r == n % d
    IN  IF 2 * r < d THEN q
        ELSE IF 2 * r > d THEN q + 1
        ELSE IF q % 2 = 0 THEN q ELSE q + 1

\* round(x, 2) of a float whose decimal value is x mills.  A value that lies
\* exactly between two hundredths has no exact binary representation in
\* general, so the stored float is just below or just above the half and
\* either neighbour can be the result.
Round2(x) ==
    LET q == x \div 10
        r == x % 10
    IN  IF r < 5 THEN {10 * q}
        ELSE IF r > 5 THEN {10 * (q + 1)}
        ELSE {10 * q, 10 * (q + 1)}

-----------------------------------------------------------------------------
(* Configuration (constructor parameters)                                  *)

\* atr_multiplier
AtrMultiplier == 2

\* daily_loss_pct
DailyLossPct == 2

\* capital, in currency units
Capital == 100

\* DailyLimitTracker._max_loss_amount = capital * (max_loss_pct / 100), in mills
MaxLossAmount == (Capital * 1000 * DailyLossPct) \div 100

Symbols == {"NIFTY50", "BANKNIFTY"}

Sides == {"LONG", "SHORT"}

NoStop == [side |-> "NONE"]

-----------------------------------------------------------------------------
(* TradingLoop, LoopStats and the brokers as constructed                   *)

\* TradingLoop.symbol; every tick fed to a loop carries the loop's symbol
LoopSymbol == "NIFTY50"

\* PaperTradingAdapter(initial_capital), in mills
PaperInitialCapital == 100000 * 1000

BrokerKinds == {"paper", "remote"}

TaskIds == {"t1", "t2"}

IdleTask == [pc |-> "idle"]

NewLoopStats ==
    [ticks_processed |-> 0,
     signals_generated |-> 0,
     trades_attempted |-> 0,
     trades_executed |-> 0,
     trades_rejected |-> 0,
     stops_hit |-> 0,
     total_pnl |-> 0,
     twap_orders |-> 0,
     vwap_orders |-> 0,
     market_orders |-> 0,
     limit_orders |-> 0]

NewLoop(trade_quantity) ==
    [trade_qty |-> trade_quantity,
     in_position |-> FALSE,
     position_side |-> "",
     entry_price |-> 0,
     entry_tick_idx |-> 0,
     trade_counter |-> 0,
     needs_fresh_data |-> FALSE]

NoPosition == [side |-> "NONE"]

\* The broker.  kind "paper" is PaperTradingAdapter with its books; kind
\* "remote" is an adapter over a network (UpstoxAdapter), whose positions
\* and cash live at the exchange: its record here never changes.
\* _prices.get(symbol, 0.0) makes an unset price read 0.
NewBroker(kind) ==
    [kind |-> kind,
     prices |-> [s \in Symbols |-> 0],
     positions |-> [s \in Symbols |-> NoPosition],
     cash |-> PaperInitialCapital,
     realized_pnl |-> 0,
     order_counter |-> 0]

\* a TradingLoop as built, as far as its own RiskFramework's daily tracker
\* and its position flag go
NewInstance == [daily_pnl |-> 0, halted |-> FALSE, in_position |-> FALSE]

LoopInit(trade_quantity, kind) ==
    /\ loop = NewLoop(trade_quantity)
    /\ stats = NewLoopStats
    /\ kelly_trades = <<>>
    /\ broker = NewBroker(kind)
    /\ tasks = [t \in TaskIds |-> IdleTask]
    /\ calls = [ticks |-> 0, intents |-> 0]
    /\ instances = [s \in Symbols |-> NewInstance]
    /\ clock = 0

-----------------------------------------------------------------------------
(* PositionRiskManager                                                     *)

\* register_position: the StopLevel stored for the symbol, for one outcome
\* rs of round(stop, 2)
InitialStopRaw(side, entry_price, atr) ==
    IF side = "LONG"
    THEN entry_price - atr * AtrMultiplier
    ELSE entry_price + atr * AtrMultiplier

\* a register_position that stores nothing
UnregisteredStop(side, entry_price, rs) == NoStop

NewStopLevel(side, entry_price, rs) ==
    [side |-> side,
     entry_price |-> entry_price,
     stop_price |-> rs,
     highest_since_entry |-> entry_price,
     lowest_since_entry |-> entry_price]

\* update, LONG branch: the trailing rule applied to the rounded candidate
TrailLongBroken(old_stop, cand) == cand

TrailLong(old_stop, cand) == Max(old_stop, cand)

\* update, SHORT branch
TrailShort(old_stop, cand) == Min(old_stop, cand)

\* update: the set of possible new StopLevels (one per rounding outcome)
UpdatedStopLevels(sl, current_price, atr) ==
    IF sl.side = "LONG"
    THEN LET hi == Max(sl.highest_since_entry, current_price)
         IN  {[sl EXCEPT !.highest_since_entry = hi,
                         !.stop_price = TrailLong(sl.stop_price, c)] :
                 c \in Round2(hi - atr * AtrMultiplier)}
    ELSE LET lo == Min(sl.lowest_since_entry, current_price)
         IN  {[sl EXCEPT !.lowest_since_entry = lo,
                         !.stop_price = TrailShort(sl.stop_price, c)] :
                 c \in Round2(lo + atr * AtrMultiplier)}

\* update: its return value, computed on the updated StopLevel
StopHit(sl, current_price) ==
    IF sl.side = "LONG"
    THEN current_price <= sl.stop_price
    ELSE current_price >= sl.stop_price

-----------------------------------------------------------------------------
(* DailyLimitTracker                                                       *)

\* record_pnl: the new (daily_pnl, halted)
HaltedAfterNoLatch(was_halted, pnl) == pnl <= -MaxLossAmount

HaltedAfter(was_halted, pnl) == was_halted \/ pnl <= -MaxLossAmount

IsTradingAllowed == ~halted

-----------------------------------------------------------------------------
(* The two risk trackers driven directly, each on its own: the stop       *)
(* tracker with any prices and ATR values, the daily tracker with any      *)
(* sequence of realized P&L amounts.                                       *)

RiskPrices == {9000, 10005, 11000}

RiskAtrs == {0, 503, 1000}

PnlAmounts == {-2000, -700, 300, 1100}

\* cap on |daily_pnl| so that the accumulator stays bounded
MaxAbsPnl == 5000

TrackersInit ==
    /\ stops = [s \in Symbols |-> NoStop]
    /\ daily_pnl = 0
    /\ halted = FALSE
    /\ parent = [strategy |-> "NONE"]
    /\ partial_seen = FALSE
    /\ op = [name |-> "init"]

RiskInit ==
    /\ TrackersInit
    /\ LoopInit(1, "paper")

RegisterPosition ==
    \E s \in Symbols, side \in Sides, p \in RiskPrices, a \in RiskAtrs :
      \E rs \in Round2(InitialStopRaw(side, p, a)) :
        /\ stops' = [stops EXCEPT ![s] = NewStopLevel(side, p, rs)]
        /\ op' = [name |-> "register_position", symbol |-> s]
        /\ UNCHANGED <<daily_pnl, halted>>

UpdatePosition ==
    \E s \in Symbols, p \in RiskPrices, a \in RiskAtrs :
        IF stops[s] = NoStop
        THEN /\ op' = [name |-> "update", symbol |-> s, price |-> p, atr |-> a,
                       hit |-> FALSE]
             /\ UNCHANGED <<stops, daily_pnl, halted>>
        ELSE \E sl \in UpdatedStopLevels(stops[s], p, a) :
               /\ stops' = [stops EXCEPT ![s] = sl]
               /\ op' = [name |-> "update", symbol |-> s, price |-> p, atr |-> a,
                         hit |-> StopHit(sl, p)]
               /\ UNCHANGED <<daily_pnl, halted>>

RemovePosition ==
    \E s \in Symbols :
        /\ stops' = [stops EXCEPT ![s] = NoStop]
        /\ op' = [name |-> "remove", symbol |-> s]
        /\ UNCHANGED <<daily_pnl, halted>>

RecordPnlFrom(amounts) ==
    \E amt \in amounts :
        /\ Abs(daily_pnl + amt) <= MaxAbsPnl
        /\ daily_pnl' = daily_pnl + amt
        /\ halted' = HaltedAfter(halted, daily_pnl + amt)
        /\ op' = [name |-> "record_pnl", amount |-> amt]
        /\ UNCHANGED stops

RecordPnl == RecordPnlFrom(PnlAmounts)

ResetDaily ==
    /\ daily_pnl' = 0
    /\ halted' = FALSE
    /\ op' = [name |-> "reset"]
    /\ UNCHANGED stops

StopsNext ==
    \/ RegisterPosition /\ UNCHANGED <<execVars, loopVars>>
    \/ UpdatePosition /\ UNCHANGED <<execVars, loopVars>>
    \/ RemovePosition /\ UNCHANGED <<execVars, loopVars>>

SpecStops == RiskInit /\ [][StopsNext]_vars

DailyNext ==
    \/ RecordPnl /\ UNCHANGED <<execVars, loopVars>>
    \/ ResetDaily /\ UNCHANGED <<execVars, loopVars>>

SpecDaily == RiskInit /\ [][DailyNext]_vars

-----------------------------------------------------------------------------
(* C1: across every update call on a tracked symbol, the stored stop of a  *)
(* LONG position never decreases and that of a SHORT position never        *)
(* increases, whatever the price and the ATR supplied.                     *)
C1_StopMonotone ==
    [][\A s \in Symbols :
         (op'.name = "update" /\ op'.symbol = s /\ stops[s] # NoStop) =>
            /\ stops'[s] # NoStop
            /\ stops'[s].side = stops[s].side
            /\ (stops[s].side = "LONG" => stops'[s].stop_price >= stops[s].stop_price)
            /\ (stops[s].side = "SHORT" => stops'[s].stop_price <= stops[s].stop_price)]_vars

\* an update of a LONG stop that had already trailed up, made with an ATR so
\* much larger that its candidate lies below the stored stop
C1_Witness ==
    \E s \in Symbols :
        /\ op.name = "update" /\ op.symbol = s
        /\ stops[s] # NoStop /\ stops[s].side = "LONG"
        /\ stops[s].highest_since_entry > stops[s].entry_price
        /\ stops[s].stop_price >
               stops[s].highest_since_entry - op.atr * AtrMultiplier + 10

-----------------------------------------------------------------------------
(* C2: the daily limit is a one-way latch: a record_pnl that leaves the    *)
(* cumulative P&L at or below -max_loss_amount halts trading; once halted, *)
(* every later record_pnl leaves it halted; reset() allows trading again.  *)
C2_DailyLatch ==
    [][/\ (op'.name = "record_pnl" /\ daily_pnl' <= -MaxLossAmount) => halted'
       /\ (op'.name = "record_pnl" /\ halted) => halted'
       /\ (halted /\ ~halted') => op'.name = "reset"
       /\ op'.name = "reset" => ~halted']_vars

\* halted although profits have brought the cumulative P&L back above the limit
C2_Witness ==
    /\ op.name = "record_pnl"
    /\ halted
    /\ daily_pnl > -MaxLossAmount

-----------------------------------------------------------------------------
(* Execution algorithms: TWAP and VWAP child-order schedules               *)

TWAP_MIN_SLICES == 2

TWAP_MAX_SLICES == 20

VWAP_MIN_SLICES == 3

VWAP_MAX_SLICES == 30

\* ExecutionManager._default_duration, in seconds
DefaultDuration == 600

RECURSIVE SeqSum(_)
SeqSum(s) == IF s = <<>> THEN 0 ELSE s[1] + SeqSum(Tail(s))

NoParent == [strategy |-> "NONE"]

\* the outcome of a generate_schedule call that raised
ZeroDivisionError == [strategy |-> "RAISED", error |-> "ZeroDivisionError"]

\* A ChildOrder as the schedulers construct it.  scheduled_time is kept as
\* the exact offset from "now": interval * i = (duration / n) * i.
NewChild(seq, qty, price, n, duration) ==
    [sequence |-> seq,
     quantity |-> qty,
     target_price |-> price,
     filled_price |-> 0,
     filled_quantity |-> 0,
     status |-> "PENDING",
     scheduled_offset |-> [num |-> duration * (seq - 1), den |-> n],
     slippage_bps |-> [num |-> 0, den |-> 1]]

NewParent(strategy, total_quantity, children) ==
    [strategy |-> strategy,
     total_quantity |-> total_quantity,
     children |-> children,
     filled_quantity |-> 0,
     average_fill_price |-> [num |-> 0, den |-> 1],
     is_complete |-> FALSE]

\* TWAPStrategy._auto_slices
TwapAutoSlices(qty) ==
    IF qty <= 50 THEN 2
    ELSE IF qty <= 200 THEN 5
    ELSE IF qty <= 1000 THEN 10
    ELSE 15

\* TWAPStrategy.generate_schedule: the slice count n.  num_slices = 0 stands
\* for None (both are falsy in "self._num_slices or ...").
TwapSliceCountNoQtyCap(num_slices, total_quantity) ==
    LET n0 == IF num_slices # 0 THEN num_slices ELSE TwapAutoSlices(total_quantity)
    IN  Max(TWAP_MIN_SLICES, Min(n0, TWAP_MAX_SLICES))

TwapSliceCount(num_slices, total_quantity) ==
    LET n0 == IF num_slices # 0 THEN num_slices ELSE TwapAutoSlices(total_quantity)
        n1 == Max(TWAP_MIN_SLICES, Min(n0, TWAP_MAX_SLICES))
    IN  Min(n1, total_quantity)

\* TWAPStrategy.generate_schedule: the children, for n > 0
TwapChildren(n, total_quantity, price, duration) ==
    LET base_qty == total_quantity \div n
        remainder == total_quantity % n
    IN  [i \in 1..n |->
            NewChild(i, base_qty + (IF i - 1 < remainder THEN 1 ELSE 0),
                     price, n, duration)]

\* VWAPStrategy._auto_slices
VwapAutoSlices(qty) ==
    IF qty <= 100 THEN 3
    ELSE IF qty <= 500 THEN 8
    ELSE IF qty <= 2000 THEN 15
    ELSE 20

\* VWAPStrategy.generate_schedule: the slice count n
VwapSliceCount(num_slices, total_quantity) ==
    LET n0 == IF num_slices # 0 THEN num_slices ELSE VwapAutoSlices(total_quantity)
        n1 == Max(VWAP_MIN_SLICES, Min(n0, VWAP_MAX_SLICES))
    IN  Min(n1, total_quantity)

\* VWAPStrategy._get_weights: the normalised weights as numerators over one
\* common denominator.  profile = <<>> stands for None or an empty list.
\* The default U-shaped weight 1 + 1.5 * (2x - 1)^2 with x = i / max(n-1, 1)
\* is (2m^2 + 3(2i - m)^2) / (2m^2) with m = max(n-1, 1).
VwapWeights(profile, n) ==
    IF Len(profile) > 0 /\ Len(profile) = n
    THEN IF SeqSum(profile) > 0
         THEN [num |-> profile, den |-> SeqSum(profile)]
         ELSE [num |-> [i \in 1..n |-> 1], den |-> n]
    ELSE LET m == Max(n - 1, 1)
             raw == [i \in 1..n |-> 2 * m * m + 3 * (2 * (i - 1) - m) * (2 * (i - 1) - m)]
         IN  [num |-> raw, den |-> SeqSum(raw)]

\* VWAPStrategy.generate_schedule: the quantity of every slice but the last,
\* max(1, round(total_quantity * weights[i]))
VwapSliceQty(total_quantity, w, i) ==
    Max(1, RoundHalfEven(total_quantity * w.num[i], w.den))

\* VWAPStrategy.generate_schedule: the children before and after the filter
\* on quantity > 0, for n > 0
VwapRawQuantities(n, total_quantity, w) ==
    LET head == [i \in 1..(n - 1) |-> VwapSliceQty(total_quantity, w, i)]
    IN  Append(head, total_quantity - SeqSum(head))

VwapChildren(n, total_quantity, profile, price, duration) ==
    LET qs == VwapRawQuantities(n, total_quantity, VwapWeights(profile, n))
        all == [i \in 1..n |-> NewChild(i, qs[i], price, n, duration)]
        Positive(c) == c.quantity > 0
    IN  SelectSeq(all, Positive)

\* TWAPStrategy.generate_schedule / VWAPStrategy.generate_schedule: the
\* ParentOrder returned, or ZeroDivisionError when n = 0
TwapSchedule(num_slices, total_quantity, price, duration) ==
    LET n == TwapSliceCount(num_slices, total_quantity)
    IN  IF n = 0 THEN ZeroDivisionError
        ELSE NewParent("TWAP", total_quantity,
                       TwapChildren(n, total_quantity, price, duration))

VwapSchedule(num_slices, profile, total_quantity, price, duration) ==
    LET n == VwapSliceCount(num_slices, total_quantity)
    IN  IF n = 0 THEN ZeroDivisionError
        ELSE NewParent("VWAP", total_quantity,
                       VwapChildren(n, total_quantity, profile, price, duration))

ChildQuantities(p) == [i \in 1..Len(p.children) |-> p.children[i].quantity]

-----------------------------------------------------------------------------
(* ExecutionManager: fill recording and parent aggregation                 *)

\* a record_fill that leaves the child as it was
UnfilledChild(child, filled_price, filled_quantity) == child

\* record_fill: the child after the fill
FilledChild(child, filled_price, filled_quantity) ==
    [child EXCEPT !.filled_price = filled_price,
                  !.filled_quantity = filled_quantity,
                  !.status = "FILLED",
                  !.slippage_bps =
                      IF child.target_price > 0
                      THEN [num |-> Abs(filled_price - child.target_price) * 10000,
                            den |-> child.target_price]
                      ELSE @]

FilledQuantities(p) == [i \in 1..Len(p.children) |-> p.children[i].filled_quantity]

FilledValues(p) ==
    [i \in 1..Len(p.children) |->
        p.children[i].filled_price * p.children[i].filled_quantity]

\* update_parent: the completion test
CompleteWhenStrict(filled, total) == filled > total

CompleteWhen(filled, total) == filled >= total

\* update_parent: the parent with its aggregates recomputed
UpdatedParent(p) ==
    LET filled == SeqSum(FilledQuantities(p))
    IN  [p EXCEPT !.filled_quantity = filled,
                  !.average_fill_price =
                      IF filled > 0
                      THEN [num |-> SeqSum(FilledValues(p)), den |-> filled]
                      ELSE @,
                  !.is_complete = IF CompleteWhen(filled, p.total_quantity)
                                  THEN TRUE ELSE @]

\* ParentOrder.remaining_quantity
RemainingQuantity(p) == p.total_quantity - p.filled_quantity

-----------------------------------------------------------------------------
(* The schedulers and the fill recording driven directly                   *)

\* largest total_quantity tried
ExecMaxQty == 6

\* requested num_slices: none (0), fewer than the minimum, more than the
\* quantity, more than the maximum
SliceSettings == {0, 1, 3, 5, 25}

\* volume profiles: none, a wrong length, and every 3-slice profile over 0..2
ProfileMaxWeight == 2

VolumeProfiles == {<<>>, <<1, 1>>} \cup [1..3 -> 0..ProfileMaxWeight]

ExecPrices == {10000}

\* fills are explored on parents of at most this many children
MaxFillChildren == 3

GenerateTwap ==
    \E ns \in SliceSettings, q \in 0..ExecMaxQty, price \in ExecPrices :
        LET r == TwapSchedule(ns, q, price, DefaultDuration)
        IN  /\ parent = NoParent
            /\ op' = [name |-> "generate_schedule", strategy |-> "TWAP",
                      num_slices |-> ns, profile |-> <<>>, total_quantity |-> q,
                      raised |-> (r = ZeroDivisionError)]
            /\ parent' = IF r = ZeroDivisionError THEN parent ELSE r
            /\ UNCHANGED partial_seen

GenerateVwap ==
    \E ns \in SliceSettings, prof \in VolumeProfiles,
       q \in 0..ExecMaxQty, price \in ExecPrices :
        LET r == VwapSchedule(ns, prof, q, price, DefaultDuration)
        IN  /\ parent = NoParent
            /\ op' = [name |-> "generate_schedule", strategy |-> "VWAP",
                      num_slices |-> ns, profile |-> prof, total_quantity |-> q,
                      raised |-> (r = ZeroDivisionError)]
            /\ parent' = IF r = ZeroDivisionError THEN parent ELSE r
            /\ UNCHANGED partial_seen

\* record_fill on one child: a full fill at the target price or 20 mills
\* away from it, or a fill one short of the child's quantity
RecordFill ==
    /\ parent # NoParent
    /\ Len(parent.children) <= MaxFillChildren
    /\ \E i \in 1..Len(parent.children) :
         LET c == parent.children[i]
         IN  \E f \in {<<c.target_price, c.quantity>>,
                       <<c.target_price + 20, c.quantity>>,
                       <<c.target_price, c.quantity - 1>>} :
               /\ parent' = [parent EXCEPT !.children[i] = FilledChild(c, f[1], f[2])]
               /\ partial_seen' = (partial_seen \/ f[2] # c.quantity)
               /\ op' = [name |-> "record_fill"]

UpdateParent ==
    /\ parent # NoParent
    /\ parent' = UpdatedParent(parent)
    /\ op' = [name |-> "update_parent"]
    /\ UNCHANGED partial_seen

ExecNext ==
    \/ GenerateTwap /\ UNCHANGED <<riskVars, loopVars>>
    \/ GenerateVwap /\ UNCHANGED <<riskVars, loopVars>>
    \/ RecordFill /\ UNCHANGED <<riskVars, loopVars>>
    \/ UpdateParent /\ UNCHANGED <<riskVars, loopVars>>

SpecExec == RiskInit /\ [][ExecNext]_vars

-----------------------------------------------------------------------------
(* C3: for every total_quantity >= 1 and every slice setting, the TWAP     *)
(* schedule is produced (no error) and its child quantities sum exactly to *)
(* the parent's total_quantity, every child having quantity >= 1.          *)
C3_TwapSumAndPositive ==
    (op.name = "generate_schedule" /\ op.strategy = "TWAP" /\ op.total_quantity >= 1) =>
        /\ ~op.raised
        /\ parent.strategy = "TWAP"
        /\ parent.total_quantity = op.total_quantity
        /\ SeqSum(ChildQuantities(parent)) = parent.total_quantity
        /\ \A i \in 1..Len(parent.children) : parent.children[i].quantity >= 1

\* more slices requested than there are shares, and a remainder to spread
C3_Witness ==
    /\ op.name = "generate_schedule" /\ op.strategy = "TWAP"
    /\ op.num_slices = 5
    /\ op.total_quantity = 3
    /\ Len(parent.children) = 3

-----------------------------------------------------------------------------
(* C4: for every total_quantity >= 1, every slice setting and every        *)
(* weighting (a supplied volume profile or the default U-shaped curve),    *)
(* the VWAP schedule's child quantities sum exactly to the parent's        *)
(* total_quantity and every child has quantity >= 1.                       *)
C4_VwapSumAndPositive ==
    (op.name = "generate_schedule" /\ op.strategy = "VWAP" /\ op.total_quantity >= 1) =>
        /\ ~op.raised
        /\ parent.strategy = "VWAP"
        /\ parent.total_quantity = op.total_quantity
        /\ SeqSum(ChildQuantities(parent)) = parent.total_quantity
        /\ \A i \in 1..Len(parent.children) : parent.children[i].quantity >= 1

-----------------------------------------------------------------------------
(* C5: for a TWAP parent whose recorded fills all equal the child's        *)
(* quantity, after update_parent the parent is complete with               *)
(* remaining_quantity 0 when every child has been filled, and is not       *)
(* complete while some child is still unfilled.                            *)
AllChildrenFilled(p) ==
    \A i \in 1..Len(p.children) :
        p.children[i].filled_quantity = p.children[i].quantity

C5_TwapRoundTrip ==
    (op.name = "update_parent" /\ parent.strategy = "TWAP" /\ ~partial_seen) =>
        /\ AllChildrenFilled(parent) =>
              (RemainingQuantity(parent) = 0 /\ parent.is_complete)
        /\ ~AllChildrenFilled(parent) => ~parent.is_complete

\* three TWAP children, all filled in full (one of them away from its target
\* price), and the parent updated
C5_Witness ==
    /\ op.name = "update_parent" /\ parent.strategy = "TWAP" /\ ~partial_seen
    /\ Len(parent.children) = 3
    /\ AllChildrenFilled(parent)
    /\ parent.children[2].filled_price # parent.children[2].target_price
    /\ parent.is_complete

-----------------------------------------------------------------------------
(* The decision pipeline of one tick: technical score, order-flow          *)
(* imbalance, volatility regime, Kelly default, combined signal and the    *)
(* confirmation gate.                                                      *)
(*                                                                         *)
(* Indicator readings: rsi in points, macd_hist and the averages in mills. *)
(* Component scores are in hundredths.  A mean over n in {2, 3, 4} terms   *)
(* is kept as 12 times its value, so that the divisions by n are exact;    *)
(* the combined score is kept in units of 1/(12 * 10^5).  The strength and *)
(* the confidence of a SignalOutput are in ten-thousandths, as rounded by  *)
(* round(x, 4).                                                            *)

Sign(x) == IF x > 0 THEN 1 ELSE IF x < 0 THEN -1 ELSE 0

\* the integer quotient n / d, truncated toward zero
Quot(n, d) == IF n >= 0 THEN n \div d ELSE -((-n) \div d)

Clip(x, lo, hi) == Max(lo, Min(x, hi))

RECURSIVE GCD(_, _)
GCD(a, b) == IF b = 0 THEN a ELSE GCD(b, a % b)

\* SignalGenerator._compute_technical_score: 12 times the score
TechnicalScore12(ind, close) ==
    LET rsi_term == IF ind.rsi < 30 THEN 100
                    ELSE IF ind.rsi > 70 THEN -100
                    ELSE (50 - ind.rsi) * 2
        macd_term == IF ind.macd_hist > 0
                     THEN Min(Quot(ind.macd_hist, 50), 100)
                     ELSE Max(Quot(ind.macd_hist, 50), -100)
        has_cross == ind.ema_9 # 0 /\ ind.ema_21 # 0
        cross_term == IF has_cross
                      THEN Clip(Quot((ind.ema_9 - ind.ema_21) * 10000, ind.ema_21),
                                -100, 100)
                      ELSE 0
        has_vwap == close # 0 /\ ind.vwap # 0
        vwap_term == IF has_vwap
                     THEN Clip(Quot((close - ind.vwap) * 10000, ind.vwap), -100, 100)
                     ELSE 0
        n == 2 + (IF has_cross THEN 1 ELSE 0) + (IF has_vwap THEN 1 ELSE 0)
    IN  (rsi_term + macd_term + cross_term + vwap_term) * (12 \div n)

\* TradingLoop._generate_signal: the dict built from the OFI analysis, for an
\* imbalance ofi in hundredths
OfiDict(ofi) == [signal_strength |-> Abs(ofi), direction |-> Sign(ofi)]

\* settings.*_vol_threshold, in percent
ExtremeLowVolThreshold == 1

LowVolThreshold == 3

NormalVolThreshold == 6

HighVolThreshold == 10

\* a classification whose bands include their upper threshold
ClassifyRegimeInclusive(atr, close_price) ==
    IF close_price <= 0 THEN "NORMAL"
    ELSE IF atr * 100 <= ExtremeLowVolThreshold * close_price THEN "EXTREME_LOW_VOL"
    ELSE IF atr * 100 <= LowVolThreshold * close_price THEN "LOW_VOL"
    ELSE IF atr * 100 <= NormalVolThreshold * close_price THEN "NORMAL"
    ELSE IF atr * 100 <= HighVolThreshold * close_price THEN "HIGH_VOL"
    ELSE "EXTREME_VOL"

\* VolatilityRegimeDetector.detect / _classify, on vol_pct = atr / close * 100
ClassifyRegime(atr, close_price) ==
    IF close_price <= 0 THEN "NORMAL"
    ELSE IF atr * 100 < ExtremeLowVolThreshold * close_price THEN "EXTREME_LOW_VOL"
    ELSE IF atr * 100 < LowVolThreshold * close_price THEN "LOW_VOL"
    ELSE IF atr * 100 < NormalVolThreshold * close_price THEN "NORMAL"
    ELSE IF atr * 100 < HighVolThreshold * close_price THEN "HIGH_VOL"
    ELSE "EXTREME_VOL"

\* _REGIME_CONFIG[regime]["position_size_multiplier"], in tenths
PositionSizeMultiplier10(regime) ==
    CASE regime = "EXTREME_LOW_VOL" -> 15
      [] regime = "LOW_VOL" -> 13
      [] regime = "NORMAL" -> 10
      [] regime = "HIGH_VOL" -> 7
      [] regime = "EXTREME_VOL" -> 3

\* settings.min_trade_history_for_kelly
MinTradeHistoryForKelly == 20

\* KellyCriterionSizer.calculate with fewer than min_trades trades recorded:
\* the conservative default, fractional_kelly = 0.01 (in hundredths)
KellyDefault == [kelly_fraction |-> 1, is_active |-> FALSE]

\* the mtf_result of a generate() call that passes none
NoMtf == [agreement_score |-> 0, direction |-> 0]

\* one unit of combined score
CombinedUnit == 12 * 100000

\* SignalGenerator.generate
Generate(tech12, ofi_result, regime, mtf_result, kelly_result) ==
    LET base == 40 * tech12
                + 20 * 12 * ofi_result.signal_strength * ofi_result.direction
                + 15 * 12 * mtf_result.agreement_score * mtf_result.direction
                + 10 * 12 * Min(kelly_result.kelly_fraction, 25)
        combined == base * PositionSizeMultiplier10(regime)
        strength == Abs(combined)
        signal == IF combined * 100 > 15 * CombinedUnit THEN "BUY"
                  ELSE IF combined * 100 < -15 * CombinedUnit THEN "SELL"
                  ELSE "HOLD"
        scaled == Min(15 * strength, 10 * CombinedUnit)
        conf100 == IF mtf_result.agreement_score < 30 /\ signal # "HOLD"
                   THEN 7 * scaled
                   ELSE 10 * scaled
    IN  [signal |-> signal,
         strength |-> RoundHalfEven(strength, 120),
         confidence |-> RoundHalfEven(conf100, 12000),
         regime |-> regime,
         kelly_fraction |-> kelly_result.kelly_fraction]

\* TradingLoop._generate_signal: the regime is classified on the indicator
\* suite's own ATR reading (ind["atr"], without the 1% fallback)
GenerateSignal(ind, close, ofi) ==
    Generate(TechnicalScore12(ind, close), OfiDict(ofi),
             ClassifyRegime(ind.atr, close), NoMtf, KellyDefault)

\* TradingLoop(min_confidence), TradeConfirmation(min_strength), and
\* check(max_positions)
MinConfidence == 4500

MinStrength == 1000

MaxPositions == 5

\* TradeConfirmation.check: the gates that reject
RejectionGatesNoRisk(signal, risk_allowed, current_position_count) ==
    (IF signal.signal = "HOLD" THEN {"hold"} ELSE {})
    \cup (IF signal.confidence < MinConfidence THEN {"confidence"} ELSE {})
    \cup (IF signal.strength < MinStrength THEN {"strength"} ELSE {})
    \cup (IF current_position_count >= MaxPositions THEN {"max_positions"} ELSE {})

RejectionGates(signal, risk_allowed, current_position_count) ==
    (IF signal.signal = "HOLD" THEN {"hold"} ELSE {})
    \cup (IF signal.confidence < MinConfidence THEN {"confidence"} ELSE {})
    \cup (IF signal.strength < MinStrength THEN {"strength"} ELSE {})
    \cup (IF ~risk_allowed THEN {"risk"} ELSE {})
    \cup (IF current_position_count >= MaxPositions THEN {"max_positions"} ELSE {})

ConfirmationCheck(signal, risk_allowed, current_position_count) ==
    LET gates == RejectionGates(signal, risk_allowed, current_position_count)
    IN  [approved |-> gates = {}, rejected_by |-> gates]

\* TradingLoop._should_exit
ExitConfidence == 4000

\* a _should_exit that closes on any confident signal, whatever its side
ShouldExitOnAnySignal(position_side, signal) ==
    signal.signal # "HOLD" /\ signal.confidence > ExitConfidence

ShouldExit(position_side, signal) ==
    \/ position_side = "LONG" /\ signal.signal = "SELL"
         /\ signal.confidence > ExitConfidence
    \/ position_side = "SHORT" /\ signal.signal = "BUY"
         /\ signal.confidence > ExitConfidence

-----------------------------------------------------------------------------
(* ExecutionManager.evaluate and the broker calls the loop awaits          *)

\* _URGENT_SLIPPAGE_THRESHOLD_BPS and _HIGH_SLIPPAGE_THRESHOLD_BPS
URGENT_SLIPPAGE_THRESHOLD_BPS == 5

HIGH_SLIPPAGE_THRESHOLD_BPS == 20

\* An order book as predict() sees it: the number of levels on the side the
\* order consumes and their summed quantity
PaperBookQuantity == 100

PaperBook == [levels |-> 1, quantity |-> PaperBookQuantity]

\* TradingLoop._open_position: atr_pct = atr / close * 100 if close > 0 else
\* 1.0, as a fraction in lowest terms
AtrPct(atr, close) ==
    IF close > 0
    THEN LET g == GCD(atr * 100, close)
         IN  [num |-> (atr * 100) \div g, den |-> close \div g]
    ELSE [num |-> 1, den |-> 1]

\* SlippagePredictor.predict: predicted_bps = round(raw_bps, 2), in hundredths
\* of a basis point, and liquidity_ratio = round(ratio, 4), in ten-thousandths
Predict(order_quantity, book, atr_pct) ==
    LET total_liquidity == IF book.levels > 0 THEN book.quantity ELSE 1
        liq == Max(total_liquidity, 1)
        vol_mult == IF atr_pct.num > atr_pct.den
                    THEN atr_pct ELSE [num |-> 1, den |-> 1]
        g == GCD(order_quantity * vol_mult.num, liq * vol_mult.den)
        num == IF g = 0 THEN 0 ELSE (order_quantity * vol_mult.num) \div g
        den == IF g = 0 THEN 1 ELSE (liq * vol_mult.den) \div g
    IN  [predicted_bps |-> RoundHalfEven(num * 5000, den),
         liquidity_ratio |-> RoundHalfEven(order_quantity * 10000, liq)]

\* ExecutionManager.evaluate: the strategy chosen
Evaluate(order_quantity, book, atr_pct) ==
    LET pred == Predict(order_quantity, book, atr_pct)
    IN  IF pred.predicted_bps <= URGENT_SLIPPAGE_THRESHOLD_BPS * 100 THEN "MARKET"
        ELSE IF pred.predicted_bps <= HIGH_SLIPPAGE_THRESHOLD_BPS * 100 THEN "LIMIT"
        ELSE IF pred.liquidity_ratio > 3000 THEN "VWAP"
        ELSE "TWAP"

\* ExecutionManager.create_schedule for TWAP / VWAP with the manager's own
\* strategies (no num_slices, no volume profile) and default duration
CreateSchedule(strategy, total_quantity, current_price) ==
    IF strategy = "TWAP"
    THEN TwapSchedule(0, total_quantity, current_price, DefaultDuration)
    ELSE VwapSchedule(0, <<>>, total_quantity, current_price, DefaultDuration)

\* A broker call that raised
Raised == [status |-> "RAISED"]

\* PaperTradingAdapter.place_order: the adapter afterwards and the response
PaperPlaceOrder(b, symbol, side, qty) ==
    LET price == b.prices[symbol]
        pos == b.positions[symbol]
        filled == [status |-> "FILLED", filled_price |-> price,
                   filled_quantity |-> qty]
        counted == [b EXCEPT !.order_counter = @ + 1]
    IN  IF pos = NoPosition
        THEN [broker |-> [counted EXCEPT
                            !.positions[symbol] =
                                [side |-> side, quantity |-> qty,
                                 entry_price |-> price],
                            !.cash = @ - price * qty],
              resp |-> filled]
        ELSE IF pos.side # side
        THEN LET pnl == IF pos.side = "LONG"
                        THEN (price - pos.entry_price) * pos.quantity
                        ELSE (pos.entry_price - price) * pos.quantity
             IN  [broker |-> [counted EXCEPT
                                !.positions[symbol] = NoPosition,
                                !.realized_pnl = @ + pnl,
                                !.cash = @ + pos.entry_price * pos.quantity + pnl],
                  resp |-> filled]
        ELSE IF pos.quantity + qty = 0
        THEN [broker |-> counted, resp |-> Raised]
        ELSE [broker |-> [counted EXCEPT
                            !.positions[symbol] =
                                [pos EXCEPT
                                   !.entry_price =
                                       Quot(pos.entry_price * pos.quantity + price * qty,
                                            pos.quantity + qty),
                                   !.quantity = pos.quantity + qty]],
              resp |-> filled]

\* UpstoxAdapter.place_order: accepted (PENDING) or rejected by the exchange,
\* neither carrying a fill price; or the request itself failed
RemoteOrderResponses ==
    {[status |-> "PENDING", filled_price |-> 0, filled_quantity |-> 0],
     [status |-> "REJECTED", filled_price |-> 0, filled_quantity |-> 0],
     Raised}

\* broker.place_order(Order(symbol, side, quantity)): every possible
\* (broker afterwards, response)
PlaceOrder(b, symbol, side, qty) ==
    IF b.kind = "paper"
    THEN {PaperPlaceOrder(b, symbol, side, qty)}
    ELSE {[broker |-> b, resp |-> r] : r \in RemoteOrderResponses}

\* books a remote exchange may report: empty, or one level of 100
RemoteBooks == {[levels |-> 0, quantity |-> 0], [levels |-> 1, quantity |-> 100]}

\* broker.get_order_book_snapshot(symbol)
OrderBookSnapshots(b) ==
    IF b.kind = "paper" THEN {PaperBook} ELSE RemoteBooks \cup {Raised}

-----------------------------------------------------------------------------
(* TradingLoop.process_tick and process_ai_intent.  A call runs from one   *)
(* await to the next in one step; tasks[t].pc names the await the call is  *)
(* suspended at, tasks[t].call holds the call's local variables together   *)
(* with a record of what the call has done so far.                         *)

\* everything a handler reads or writes outside its own locals
World ==
    [stops |-> stops, daily_pnl |-> daily_pnl, halted |-> halted,
     loop |-> loop, stats |-> stats, kelly_trades |-> kelly_trades,
     broker |-> broker]

NoSignal == [signal |-> "NONE"]

NoConfirmation == [approved |-> FALSE, rejected_by |-> {"unchecked"}]

NoReturn == [action |-> "NONE"]

\* the locals of a call that has just been made
NewCall(kind, in_position) ==
    [kind |-> kind,
     intent |-> "NONE",
     quote |-> "NONE",
     close |-> 0,
     atr |-> 0,
     flat_at_start |-> ~in_position,
     stop_checked |-> FALSE,
     signal |-> NoSignal,
     risk_allowed |-> "unread",
     confirmation |-> NoConfirmation,
     reason |-> "",
     side |-> "",
     pnl |-> 0,
     strategy |-> "NONE",
     sched |-> NoParent,
     next_child |-> 0,
     orders |-> <<>>]

\* a step's outcome: the world and the locals after it, the await it stops
\* at ("idle" when the call is over) and what the call returned
StepResult(w, call, pc, ret) == [w |-> w, call |-> call, pc |-> pc, ret |-> ret]

Return(action, reason) == [action |-> action, raised |-> FALSE, reason |-> reason]

\* an exception leaving the handler
Raise(error) == [action |-> "NONE", raised |-> TRUE, reason |-> error]

\* what a call remembers of risk.is_trading_allowed()
RiskRead(risk_allowed) == IF risk_allowed THEN "allowed" ELSE "halted"

\* atr = ind_values["atr"] or tick.close * 0.01
AtrOrFallback(ind_atr, close) == IF ind_atr # 0 THEN ind_atr ELSE Quot(close, 100)

\* _close_position up to its await: the P&L and the closing side
BeginClose(w, call, reason) ==
    LET long == w.loop.position_side = "LONG"
        pnl == IF long
               THEN (call.close - w.loop.entry_price) * w.loop.trade_qty
               ELSE (w.loop.entry_price - call.close) * w.loop.trade_qty
    IN  StepResult(w,
                   [call EXCEPT !.reason = reason, !.pnl = pnl,
                                !.side = IF long THEN "SHORT" ELSE "LONG"],
                   "close_order", NoReturn)

\* _open_position up to its first await
BeginOpen(w, call) ==
    StepResult(w,
               [call EXCEPT !.side = IF call.signal.signal = "BUY"
                                     THEN "LONG" ELSE "SHORT"],
               "open_book", NoReturn)

\* process_tick from its first line to its first await or its return.  sl is
\* the StopLevel left by the stop check (one rounding outcome).
\* a tick that the statistics do not count
UncountedTick(st) == st

\* self.stats.ticks_processed += 1
CountedTick(st) == [st EXCEPT !.ticks_processed = @ + 1]

\* a framework that allows trading whatever the daily tracker says
RiskAlwaysAllowsTrading(w) == TRUE

\* RiskFramework.is_trading_allowed
RiskIsTradingAllowed(w) == ~w.halted

TickBegin(w, close, ind, ofi, sl) ==
    LET call0 == [NewCall("process_tick", w.loop.in_position) EXCEPT
                    !.close = close, !.atr = AtrOrFallback(ind.atr, close)]
        w1 == [w EXCEPT !.stats = CountedTick(@),
                        !.broker.prices[LoopSymbol] =
                            IF w.broker.kind = "paper" THEN close ELSE @]
        signal == GenerateSignal(ind, close, ofi)
    IN  IF w.loop.in_position
        THEN LET tracked == w.stops[LoopSymbol] # NoStop
                 w2 == [w1 EXCEPT !.stops[LoopSymbol] = IF tracked THEN sl ELSE @]
                 call1 == [call0 EXCEPT !.stop_checked = TRUE]
             IN  IF tracked /\ StopHit(sl, close)
                 THEN BeginClose(w2, call1, "STOP_LOSS")
                 ELSE IF ShouldExit(w.loop.position_side, signal)
                 THEN BeginClose(w2, [call1 EXCEPT !.signal = signal], "SIGNAL_EXIT")
                 ELSE StepResult(w2, [call1 EXCEPT !.signal = signal], "idle",
                                 Return("HOLD_POSITION", ""))
        ELSE LET w2 == [w1 EXCEPT !.stats.signals_generated = @ + 1]
                 call1 == [call0 EXCEPT !.signal = signal]
                 risk_allowed == RiskIsTradingAllowed(w)
                 conf == ConfirmationCheck(signal, risk_allowed, 0)
                 call2 == [call1 EXCEPT !.risk_allowed = RiskRead(risk_allowed),
                                        !.confirmation = conf]
             IN  IF signal.signal = "HOLD"
                 THEN StepResult(w2, call1, "idle", Return("HOLD", ""))
                 ELSE IF conf.approved
                 THEN BeginOpen(w2, call2)
                 ELSE StepResult([w2 EXCEPT !.stats.trades_rejected = @ + 1,
                                            !.stats.trades_attempted = @ + 1],
                                 call2, "idle", Return("HOLD", ""))

\* settings / KellyCriterionSizer(lookback): the deque's maxlen
KellyLookback == 100

\* a history that drops the trade handed to it
DequeUnchanged(q, x, maxlen) == q

\* collections.deque(maxlen).append
DequeAppend(q, x, maxlen) ==
    IF Len(q) < maxlen THEN Append(q, x) ELSE Append(Tail(q), x)

\* the entry of a call's order record
Submitted(purpose, side, qty, resp) ==
    [purpose |-> purpose, side |-> side, quantity |-> qty, status |-> resp.status]

\* _close_position from the return of place_order to its end, then
\* process_tick to its return.  placed is PlaceOrder's outcome.
CloseOrderBack(w, call, placed) ==
    LET qty == w.loop.trade_qty
        w1 == [w EXCEPT !.broker = placed.broker]
        call1 == [call EXCEPT !.orders = Append(@, Submitted("exit", call.side, qty,
                                                             placed.resp))]
        pnl == call.pnl
        trade == [id |-> w.loop.trade_counter,
                  side |-> IF w.loop.position_side = "LONG" THEN "LONG" ELSE "SHORT",
                  quantity |-> qty,
                  entry_price |-> w.loop.entry_price,
                  exit_price |-> call.close,
                  entry_time |-> w.loop.entry_tick_idx,
                  exit_time |-> w.stats.ticks_processed,
                  exit_reason |-> call.reason]
        w2 == [w1 EXCEPT
                 !.daily_pnl = @ + pnl,
                 !.halted = HaltedAfter(@, w.daily_pnl + pnl),
                 !.stops[LoopSymbol] = NoStop,
                 !.stats.total_pnl = @ + pnl,
                 !.stats.stops_hit = IF call.reason = "STOP_LOSS" THEN @ + 1 ELSE @,
                 !.kelly_trades = DequeAppend(@, trade, KellyLookback),
                 !.loop.in_position = FALSE,
                 !.loop.position_side = "",
                 !.loop.entry_price = 0]
    IN  IF placed.resp = Raised
        THEN StepResult(w1, call1, "idle", Raise("place_order"))
        ELSE StepResult(w2, call1, "idle",
                        Return(IF call.reason = "STOP_LOSS" THEN "STOPPED" ELSE "EXIT",
                               ""))

\* _open_position from the return of get_order_book_snapshot to the next
\* await: the plan, and the schedule when the plan is TWAP or VWAP
OpenBookBack(w, call, book) ==
    LET strategy == Evaluate(w.loop.trade_qty, book, AtrPct(call.atr, call.close))
        algo == strategy \in {"TWAP", "VWAP"}
        sched == IF algo
                 THEN CreateSchedule(strategy, w.loop.trade_qty, call.close)
                 ELSE NoParent
    IN  IF book = Raised
        THEN StepResult(w, call, "idle", Raise("get_order_book_snapshot"))
        ELSE IF sched = ZeroDivisionError
        THEN StepResult(w, call, "idle", Raise("ZeroDivisionError"))
        ELSE StepResult(w,
                        [call EXCEPT !.strategy = strategy, !.sched = sched,
                                     !.next_child = 1],
                        "open_order", NoReturn)

\* _open_position after its last order: the loop's position state, the stop
\* registered (rs is one outcome of round(stop, 2)), then the caller to its
\* return
FinishOpen(w, call, rs) ==
    LET strategy == call.strategy
        w1 == [w EXCEPT
                 !.stats.twap_orders = IF strategy = "TWAP" THEN @ + 1 ELSE @,
                 !.stats.vwap_orders = IF strategy = "VWAP" THEN @ + 1 ELSE @,
                 !.stats.market_orders = IF strategy = "MARKET" THEN @ + 1 ELSE @,
                 !.stats.limit_orders = IF strategy = "LIMIT" THEN @ + 1 ELSE @,
                 !.loop.in_position = TRUE,
                 !.loop.position_side = call.side,
                 !.loop.entry_price = call.close,
                 !.loop.entry_tick_idx = w.stats.ticks_processed,
                 !.loop.trade_counter = @ + 1,
                 !.stops[LoopSymbol] = NewStopLevel(call.side, call.close, rs)]
        w2 == [w1 EXCEPT
                 !.stats.trades_executed = @ + 1,
                 !.stats.trades_attempted = @ + 1,
                 !.loop.needs_fresh_data =
                     IF call.kind = "process_ai_intent" THEN TRUE ELSE @]
    IN  StepResult(w2, call, "idle", Return("ENTRY", ""))

\* _open_position from the return of one place_order to the next await or to
\* the end
OpenOrderBack(w, call, placed, rs) ==
    LET algo == call.strategy \in {"TWAP", "VWAP"}
        k == call.next_child
        qty == IF algo THEN call.sched.children[k].quantity ELSE w.loop.trade_qty
        resp == placed.resp
        fill_price == IF resp.filled_price # 0 THEN resp.filled_price ELSE call.close
        w1 == [w EXCEPT !.broker = placed.broker]
        call1 == [call EXCEPT !.orders = Append(@, Submitted("entry", call.side, qty,
                                                             resp))]
        call2 == [call1 EXCEPT
                    !.sched.children[k] = FilledChild(@, fill_price, qty),
                    !.next_child = k + 1]
        call3 == [call2 EXCEPT !.sched = UpdatedParent(@)]
    IN  IF resp = Raised
        THEN StepResult(w1, call1, "idle", Raise("place_order"))
        ELSE IF ~algo
        THEN FinishOpen(w1, call1, rs)
        ELSE IF k < Len(call.sched.children)
        THEN StepResult(w1, call2, "open_order", NoReturn)
        ELSE FinishOpen(w1, call3, rs)

\* broker.get_quote(symbol) as fetch_fresh_tick sees it: the price quoted, or
\* an exception.  The paper adapter quotes _prices.get(symbol, 0.0).
Quotes(b, prices) ==
    IF b.kind = "paper"
    THEN {[status |-> "OK", price |-> b.prices[LoopSymbol]]}
    ELSE {[status |-> "OK", price |-> p] : p \in prices} \cup {Raised}

\* an intent that goes on to confirmation whatever the fresh signal says
FreshSignalAlwaysTradable(signal) == TRUE

\* process_ai_intent, step 4: the fresh signal is not HOLD
FreshSignalTradable(signal) == signal.signal # "HOLD"

\* process_ai_intent from the return of fetch_fresh_tick to its next await
\* or its return
QuoteBack(w, call, quote, ind, ofi) ==
    LET close == quote.price
        signal == GenerateSignal(ind, close, ofi)
        call1 == [call EXCEPT !.quote = "fetched", !.close = close,
                              !.atr = AtrOrFallback(ind.atr, close),
                              !.signal = signal]
        risk_allowed == RiskIsTradingAllowed(w)
        conf == ConfirmationCheck(signal, risk_allowed,
                                  IF w.loop.in_position THEN 1 ELSE 0)
        call2 == [call1 EXCEPT !.risk_allowed = RiskRead(risk_allowed),
                               !.confirmation = conf]
    IN  IF quote = Raised
        THEN StepResult(w, [call EXCEPT !.quote = "failed"], "idle",
                        Return("HOLD", "Failed to fetch fresh data"))
        ELSE IF ~FreshSignalTradable(signal)
        THEN StepResult(w, call1, "idle",
                        Return("HOLD", "Fresh data contradicts AI intent"))
        ELSE IF conf.approved /\ ~w.loop.in_position
        THEN BeginOpen(w, call2)
        ELSE StepResult([w EXCEPT !.stats.trades_rejected = @ + 1,
                                  !.stats.trades_attempted = @ + 1,
                                  !.loop.needs_fresh_data = TRUE],
                        call2, "idle", Return("HOLD", ""))

-----------------------------------------------------------------------------
(* The loop driven by a host: ticks and AI intents arrive, broker calls    *)
(* return, and the host may record a loss on or reset the daily tracker.   *)

\* tick.close values
TickCloses == {10000, 11000}

\* StreamingIndicatorSuite.update is a filter over the whole tick history;
\* its snapshot is taken here as any of these readings: a bullish, a
\* bearish and a neutral one (the last with no VWAP yet), each with an ATR
\* of 0 (no range yet) or 200 mills.  None of the scores these readings give
\* falls on a rounding tie of round(x, 4).
IndicatorAtrs == {0, 200}

IndicatorReadings ==
    {[rsi |-> r[1], macd_hist |-> r[2], ema_9 |-> r[3], ema_21 |-> r[4],
      vwap |-> r[5], atr |-> a] :
        r \in {<<40, 5000, 10300, 10000, 8000>>,
               <<60, -5000, 9700, 10000, 12000>>,
               <<50, 0, 10000, 10000, 0>>},
        a \in IndicatorAtrs}

\* OrderFlowAnalyzer.analyze on the randomly generated synthetic book: the
\* imbalance, in hundredths
OfiReadings == {-80, 30}

\* TradingLoop(trade_quantity): against the paper book of 100 a quantity of
\* 1 goes out as a MARKET order, 30 as LIMIT or TWAP and 40 as LIMIT or VWAP
TradeQtys == {1, 30, 40}

\* TradingLoop(broker, trade_quantity) as constructed: every quantity on the
\* paper broker, the single-order and the scheduled entry on the network
LoopConfigs ==
    {<<q, "paper">> : q \in TradeQtys} \cup {<<30, "remote">>}

IntentSignals == {"BUY", "SELL"}

\* a loss the host records on the loop's daily tracker
HostPnlAmounts == {-3000}

\* number of handler calls the host makes
MaxCalls == 3

\* a step's outcome installed as the next state
Apply(t, r) ==
    /\ stops' = r.w.stops
    /\ daily_pnl' = r.w.daily_pnl
    /\ halted' = r.w.halted
    /\ loop' = r.w.loop
    /\ stats' = r.w.stats
    /\ kelly_trades' = r.w.kelly_trades
    /\ broker' = r.w.broker
    /\ tasks' = [tasks EXCEPT ![t] = IF r.pc = "idle" THEN IdleTask
                                     ELSE [pc |-> r.pc, call |-> r.call]]
    /\ op' = IF r.pc = "idle"
             THEN [name |-> r.call.kind, action |-> r.ret.action,
                   raised |-> r.ret.raised, reason |-> r.ret.reason,
                   call |-> r.call]
             ELSE [name |-> "await", pc |-> r.pc, call |-> r.call]
    /\ UNCHANGED <<execVars, instances, clock>>

\* the StopLevels the stop check of a tick can leave
StopCheckOutcomes(close, atr) ==
    IF loop.in_position /\ stops[LoopSymbol] # NoStop
    THEN UpdatedStopLevels(stops[LoopSymbol], close, atr)
    ELSE {NoStop}

ProcessTick(t) ==
    /\ tasks[t].pc = "idle"
    /\ calls.ticks + calls.intents < MaxCalls
    /\ \E close \in TickCloses, ind \in IndicatorReadings, ofi \in OfiReadings :
         \E sl \in StopCheckOutcomes(close, AtrOrFallback(ind.atr, close)) :
           Apply(t, TickBegin(World, close, ind, ofi, sl))
    /\ calls' = [calls EXCEPT !.ticks = @ + 1]

ProcessAiIntent(t) ==
    /\ tasks[t].pc = "idle"
    /\ calls.ticks + calls.intents < MaxCalls
    /\ \E intent \in IntentSignals :
         LET call == [NewCall("process_ai_intent", loop.in_position) EXCEPT
                        !.intent = intent]
         IN  /\ tasks' = [tasks EXCEPT ![t] = [pc |-> "ai_quote", call |-> call]]
             /\ op' = [name |-> "await", pc |-> "ai_quote", call |-> call]
    /\ calls' = [calls EXCEPT !.intents = @ + 1]
    /\ UNCHANGED <<riskVars, execVars, loop, stats, kelly_trades, broker, instances, clock>>

QuoteReturns(t) ==
    /\ tasks[t].pc = "ai_quote"
    /\ \E quote \in Quotes(broker, TickCloses),
          ind \in IndicatorReadings, ofi \in OfiReadings :
         Apply(t, QuoteBack(World, tasks[t].call, quote, ind, ofi))
    /\ UNCHANGED calls

OrderBookReturns(t) ==
    /\ tasks[t].pc = "open_book"
    /\ \E book \in OrderBookSnapshots(broker) :
         Apply(t, OpenBookBack(World, tasks[t].call, book))
    /\ UNCHANGED calls

\* the quantity of the entry order a call is about to place
EntryOrderQty(call) ==
    IF call.strategy \in {"TWAP", "VWAP"}
    THEN call.sched.children[call.next_child].quantity
    ELSE loop.trade_qty

EntryOrderReturns(t) ==
    /\ tasks[t].pc = "open_order"
    /\ LET call == tasks[t].call
       IN  \E placed \in PlaceOrder(broker, LoopSymbol, call.side, EntryOrderQty(call)),
              rs \in Round2(InitialStopRaw(call.side, call.close, call.atr)) :
             Apply(t, OpenOrderBack(World, call, placed, rs))
    /\ UNCHANGED calls

ExitOrderReturns(t) ==
    /\ tasks[t].pc = "close_order"
    /\ LET call == tasks[t].call
       IN  \E placed \in PlaceOrder(broker, LoopSymbol, call.side, loop.trade_qty) :
             Apply(t, CloseOrderBack(World, call, placed))
    /\ UNCHANGED calls

\* the host awaits each call before it makes the next one
NoCallInFlight == \A u \in TaskIds : tasks[u].pc = "idle"

HostRecordsPnl ==
    /\ NoCallInFlight
    /\ RecordPnlFrom(HostPnlAmounts)
    /\ UNCHANGED <<execVars, loopVars>>

HostResets ==
    /\ NoCallInFlight
    /\ ResetDaily
    /\ UNCHANGED <<execVars, loopVars>>

Init ==
    /\ TrackersInit
    /\ \E c \in LoopConfigs : LoopInit(c[1], c[2])

Next ==
    \/ NoCallInFlight /\ ProcessTick("t1")
    \/ NoCallInFlight /\ ProcessAiIntent("t1")
    \/ \E t \in TaskIds : QuoteReturns(t)
    \/ \E t \in TaskIds : OrderBookReturns(t)
    \/ \E t \in TaskIds : EntryOrderReturns(t)
    \/ \E t \in TaskIds : ExitOrderReturns(t)
    \/ HostRecordsPnl
    \/ HostResets

Spec == Init /\ [][Next]_vars

-----------------------------------------------------------------------------
(* Properties of the trading loop, checked under Spec                      *)

\* the step just taken was a handler returning or raising
CallEnded == op.name \in {"process_tick", "process_ai_intent"}

\* the orders a call has submitted for a purpose ("entry" or "exit")
OrdersFor(call, purpose) ==
    SelectSeq(call.orders, LAMBDA o : o.purpose = purpose)

\* a call is between the start and the end of _open_position
EntryInProgress == \E t \in TaskIds : tasks[t].pc \in {"open_book", "open_order"}

C7_LatchBlocksEntriesOnly ==
    /\ halted => /\ ~EntryInProgress
                 /\ ~(CallEnded /\ op.action = "ENTRY")
                 /\ CallEnded => OrdersFor(op.call, "entry") = <<>>
    /\ \A t \in TaskIds :
         (tasks[t].pc # "idle" /\ tasks[t].call.kind = "process_tick"
             /\ ~tasks[t].call.flat_at_start) => tasks[t].call.stop_checked
    /\ (op.name = "process_tick" /\ ~op.call.flat_at_start) => op.call.stop_checked

\* a position closed at a profit with the limit latched: the profit cannot
\* have set the latch, so it was set when the tick arrived
C7_Witness ==
    /\ halted
    /\ op.name = "process_tick"
    /\ op.action \in {"STOPPED", "EXIT"}
    /\ op.call.stop_checked
    /\ op.call.pnl > 0
    /\ ~loop.in_position

\* C8: a process_ai_intent call is inside _open_position, or has submitted
\* an entry order, only with a quote fetched in that call, the signal
\* recomputed at the quoted price and not HOLD, and a confirmation approved
\* while the loop was flat; a call whose quote failed or whose fresh signal
\* is HOLD returns HOLD with a reason and has submitted no order.
IntentEntryJustified(call) ==
    /\ call.quote = "fetched"
    /\ call.signal # NoSignal
    /\ call.signal.signal \in {"BUY", "SELL"}
    /\ call.confirmation # NoConfirmation
    /\ call.confirmation.approved
    /\ call.flat_at_start

C8_IntentEntersOnFreshSignal ==
    /\ \A t \in TaskIds :
         (tasks[t].pc \in {"open_book", "open_order"}
             /\ tasks[t].call.kind = "process_ai_intent")
         => IntentEntryJustified(tasks[t].call)
    /\ op.name = "process_ai_intent" =>
         /\ (op.call.orders # <<>> \/ op.action = "ENTRY")
              => IntentEntryJustified(op.call)
         /\ (op.call.quote = "failed" \/ op.call.signal = NoSignal
               \/ op.call.signal.signal = "HOLD")
              => /\ ~op.raised
                 /\ op.action = "HOLD"
                 /\ op.reason # ""
                 /\ op.call.orders = <<>>

\* an AI intent that entered on a fresh BUY or SELL signal
C8_Witness ==
    /\ op.name = "process_ai_intent"
    /\ op.action = "ENTRY"
    /\ op.call.quote = "fetched"
    /\ op.call.signal.signal \in {"BUY", "SELL"}
    /\ op.call.orders # <<>>
    /\ loop.in_position

\* C9: a step that closes the position (a call returning STOPPED or EXIT)
\* has submitted exactly one order, on the side opposite to the position,
\* for trade_qty; it adds the trade's P&L to the daily tracker once, makes
\* the Kelly history one trade longer and removes the symbol's StopLevel.
\* The StopLevel is removed by no other step, and it is there as long as
\* the position is open.
ClosedBy(o) == o.name = "process_tick" /\ o.action \in {"STOPPED", "EXIT"}

C9_CloseStep ==
    (ClosedBy(op') /\ loop.in_position) =>
        /\ Len(op'.call.orders) = 1
        /\ op'.call.orders[1].purpose = "exit"
        /\ op'.call.orders[1].quantity = loop.trade_qty
        /\ op'.call.orders[1].side =
               (IF loop.position_side = "LONG" THEN "SHORT" ELSE "LONG")
        /\ daily_pnl' = daily_pnl + op'.call.pnl
        /\ Len(kelly_trades') = Len(kelly_trades) + 1
        /\ kelly_trades'[Len(kelly_trades')].exit_reason = op'.call.reason
        /\ stops[LoopSymbol] # NoStop
        /\ stops'[LoopSymbol] = NoStop
        /\ ~loop'.in_position

C9_StopRemovedOnlyAtClose ==
    /\ (stops[LoopSymbol] # NoStop /\ stops'[LoopSymbol] = NoStop)
          => (ClosedBy(op') /\ loop.in_position)
    /\ (loop'.in_position /\ NoCallInFlight') => stops'[LoopSymbol] # NoStop

C9_CloseOnce == [][C9_CloseStep /\ C9_StopRemovedOnlyAtClose]_vars

\* a position closed by a signal exit, its one order submitted and its
\* trade the first of the Kelly history
C9_Witness ==
    /\ ClosedBy(op)
    /\ op.action = "EXIT"
    /\ Len(op.call.orders) = 1
    /\ Len(kelly_trades) = 1
    /\ stops[LoopSymbol] = NoStop
    /\ daily_pnl = op.call.pnl
    /\ daily_pnl # 0

\* C10: a process_tick call is inside _open_position, or returns ENTRY,
\* only if the loop was flat when the tick arrived, the signal is BUY or
\* SELL and the confirmation approved it with the risk_allowed that the
\* daily tracker gave on that tick; a returned ENTRY has submitted entry
\* orders and left a StopLevel.  A tick arriving flat whose signal is HOLD
\* or whose confirmation is rejected returns HOLD, leaves the loop flat,
\* submits no order and registers no StopLevel.
TickEntryJustified(call) ==
    /\ call.flat_at_start
    /\ call.signal # NoSignal
    /\ call.signal.signal \in {"BUY", "SELL"}
    /\ call.confirmation # NoConfirmation
    /\ call.confirmation.approved
    /\ call.risk_allowed = "allowed"
    /\ ~halted

C10_TickEntryGuarded ==
    /\ \A t \in TaskIds :
         (tasks[t].pc \in {"open_book", "open_order"}
             /\ tasks[t].call.kind = "process_tick")
         => TickEntryJustified(tasks[t].call)
    /\ (op.name = "process_tick" /\ op.action = "ENTRY") =>
         /\ TickEntryJustified(op.call)
         /\ OrdersFor(op.call, "entry") # <<>>
         /\ loop.in_position
         /\ stops[LoopSymbol] # NoStop
    /\ (op.name = "process_tick" /\ op.call.flat_at_start /\ ~op.raised
          /\ (op.call.signal.signal = "HOLD"
                \/ (op.call.confirmation # NoConfirmation
                      /\ ~op.call.confirmation.approved))) =>
         /\ op.action = "HOLD"
         /\ ~loop.in_position
         /\ op.call.orders = <<>>
         /\ stops[LoopSymbol] = NoStop

\* a tick that found the loop flat and entered with the tracker's leave
C10_Witness ==
    /\ op.name = "process_tick"
    /\ op.action = "ENTRY"
    /\ op.call.flat_at_start
    /\ op.call.confirmation.approved
    /\ op.call.risk_allowed = "allowed"
    /\ loop.in_position
    /\ stops[LoopSymbol] # NoStop

-----------------------------------------------------------------------------
(* The decision functions called on their own: each step below is one call *)
(* of one function, op recording its arguments and what it returned.       *)

\* TradeConfirmation(max_position_pct), in percent
MaxPositionPct == 5

\* TradeConfirmation._compute_size, in units of 1/100000 percent
\* (signal.confidence in ten-thousandths, regime_scale in tenths,
\* signal.kelly_fraction in hundredths)
ComputeSize(signal) ==
    LET regime_scale == CASE signal.regime = "EXTREME_LOW_VOL" -> 5
                          [] signal.regime = "LOW_VOL" -> 8
                          [] signal.regime = "NORMAL" -> 10
                          [] signal.regime = "HIGH_VOL" -> 6
                          [] signal.regime = "EXTREME_VOL" -> 3
        base == MaxPositionPct * signal.confidence * regime_scale
        bounded == IF signal.kelly_fraction > 0
                   THEN Min(base, signal.kelly_fraction * 100000)
                   ELSE base
    IN  Min(bounded, MaxPositionPct * 100000)

\* TradeConfirmation.check: the reasons appended by the gates that fail, all
\* gates but the strength gate
GateReasonsNoStrength(signal, risk_allowed, current_position_count, max_positions) ==
    (IF signal.signal = "HOLD" THEN <<"Signal is HOLD">> ELSE <<>>)
    \o (IF signal.confidence < MinConfidence THEN <<"Confidence">> ELSE <<>>)
    \o (IF ~risk_allowed THEN <<"Risk framework halted trading">> ELSE <<>>)
    \o (IF current_position_count >= max_positions
        THEN <<"Max positions reached">> ELSE <<>>)

\* TradeConfirmation.check: the reasons appended by the gates that fail, in
\* the order the gates are run (the numbers formatted into the confidence,
\* strength and max-positions reasons are left out)
GateReasons(signal, risk_allowed, current_position_count, max_positions) ==
    (IF signal.signal = "HOLD" THEN <<"Signal is HOLD">> ELSE <<>>)
    \o (IF signal.confidence < MinConfidence THEN <<"Confidence">> ELSE <<>>)
    \o (IF signal.strength < MinStrength THEN <<"Strength">> ELSE <<>>)
    \o (IF ~risk_allowed THEN <<"Risk framework halted trading">> ELSE <<>>)
    \o (IF current_position_count >= max_positions
        THEN <<"Max positions reached">> ELSE <<>>)

\* round(position_pct, 2) of a float whose decimal value is x/100000 percent,
\* in hundredths of a percent: a value exactly between two hundredths is
\* stored just below or just above the half, so either neighbour can result
RoundedSizes(x) ==
    LET q == x \div 1000
        r == x % 1000
    IN  IF 2 * r < 1000 THEN {q}
        ELSE IF 2 * r > 1000 THEN {q + 1}
        ELSE {q, q + 1}

\* TradeConfirmation.check: the results it can return; position_size_pct in
\* hundredths of a percent
Check(signal, risk_allowed, current_position_count, max_positions) ==
    LET failed == GateReasons(signal, risk_allowed, current_position_count,
                              max_positions)
        approved == failed = <<>>
        position_pct == IF approved THEN ComputeSize(signal) ELSE 0
    IN  {[approved |-> approved,
          signal |-> signal.signal,
          reasons |-> IF approved THEN <<"All gates passed">> ELSE failed,
          position_size_pct |-> size] : size \in RoundedSizes(position_pct)}

\* one call of check: any signal, with confidence and strength on both
\* sides of and at the thresholds, and position counts below and at
\* max_positions
CallCheck ==
    /\ \E signal \in [signal : {"BUY", "SELL", "HOLD"},
                       strength : {MinStrength - 1, MinStrength, 6000},
                       confidence : {MinConfidence - 1, MinConfidence, 9000},
                       regime : {"LOW_VOL", "EXTREME_VOL"},
                       kelly_fraction : {0, 1}],
          risk_allowed \in BOOLEAN,
          n \in {0, 1, MaxPositions},
          m \in {1, MaxPositions} :
         \E result \in Check(signal, risk_allowed, n, m) :
           op' = [name |-> "check", signal |-> signal,
                  risk_allowed |-> risk_allowed,
                  current_position_count |-> n, max_positions |-> m,
                  result |-> result]
    /\ UNCHANGED <<riskVars, execVars, loopVars>>

SpecCheck == RiskInit /\ [][CallCheck]_vars

\* the five gates of a check call, in the order they are run, each with
\* whether the call's arguments pass it
C11_Gates ==
    << [reason |-> "Signal is HOLD",
        pass |-> op.signal.signal # "HOLD"],
       [reason |-> "Confidence",
        pass |-> op.signal.confidence >= MinConfidence],
       [reason |-> "Strength",
        pass |-> op.signal.strength >= MinStrength],
       [reason |-> "Risk framework halted trading",
        pass |-> op.risk_allowed],
       [reason |-> "Max positions reached",
        pass |-> op.current_position_count < op.max_positions] >>

\* the reasons of the gates that fail, in gate order
C11_FailedReasons ==
    LET failed == SelectSeq(C11_Gates, LAMBDA g : ~g.pass)
    IN  [i \in 1..Len(failed) |-> failed[i].reason]

-----------------------------------------------------------------------------
(* KellyCriterionSizer on its own: trades are added one at a time or in    *)
(* bulk, and calculate is called on whatever history there is.             *)

\* KellyCriterionSizer(min_trades, lookback) as the sizer under check is built
SizerMinTrades == 3

SizerLookback == 4

\* self._min_trades = min_trades or settings.min_trade_history_for_kelly
EffectiveMinTrades(min_trades) ==
    IF min_trades = 0 THEN MinTradeHistoryForKelly ELSE min_trades

\* TradeResult.pnl, in mills
TradePnl(trade) ==
    (IF trade.side = "LONG" THEN 1 ELSE -1)
        * (trade.exit_price - trade.entry_price) * trade.quantity

RECURSIVE SumPnl(_)
SumPnl(trades) ==
    IF trades = <<>> THEN 0 ELSE TradePnl(Head(trades)) + SumPnl(Tail(trades))

\* a threshold test that still finds too few trades when there are exactly
\* min_trades of them
TooFewTradesInclusive(trades_count, min_trades) == trades_count <= min_trades

\* calculate: "Not enough history"
TooFewTrades(trades_count, min_trades) == trades_count < min_trades

\* KellyCriterionSizer.calculate with the default kelly_fraction 0.25 and
\* max_position_pct 0.10; fractional_kelly is the fraction <<num, den>> in
\* lowest terms (position_size_rupees and position_size_shares, which
\* depend on the capital and prices passed, are left out)
Calculate(trades, min_trades) ==
    LET trades_count == Len(trades)
        winners == SelectSeq(trades, LAMBDA t : TradePnl(t) > 0)
        losers == SelectSeq(trades, LAMBDA t : ~(TradePnl(t) > 0))
        W == Len(winners)
        L == Len(losers)
        sum_win == SumPnl(winners)
        sum_loss == Abs(SumPnl(losers))
        \* odds = avg_win / avg_loss if avg_loss > 0 else 1.0, as on / od;
        \* avg_win is 0.0 without winners and avg_loss 1.0 (1000 mills)
        \* without losers
        on == IF L = 0 THEN sum_win
              ELSE IF sum_loss = 0 THEN 1
              ELSE IF W = 0 THEN 0 ELSE sum_win * L
        od == IF L = 0 THEN 1000 * W
              ELSE IF sum_loss = 0 THEN 1
              ELSE IF W = 0 THEN 1 ELSE W * sum_loss
        \* full_kelly = max((odds * win_rate - q) / odds, 0) if odds > 0
        fn == IF on > 0 THEN Max(on * W - L * od, 0) ELSE 0
        fd == IF on > 0 THEN trades_count * on ELSE 1
        \* fractional = min(full_kelly * 0.25, 0.10)
        capped == 10 * fn > 4 * fd
        num == IF capped THEN 1 ELSE fn
        den == IF capped THEN 10 ELSE 4 * fd
        g == GCD(num, den)
    IN  IF TooFewTrades(trades_count, min_trades)
        THEN [is_active |-> FALSE, fractional_kelly |-> <<1, 100>>,
              trades_analyzed |-> trades_count]
        ELSE [is_active |-> TRUE, fractional_kelly |-> <<num \div g, den \div g>>,
              trades_analyzed |-> trades_count]

\* the closed trades fed to the sizer: one share bought at 10.000 and sold
\* at a loss, flat or at a gain
SizerTrades ==
    {[id |-> 0, side |-> "LONG", quantity |-> 1, entry_price |-> 10000,
      exit_price |-> x, entry_time |-> 0, exit_time |-> 1, exit_reason |-> ""] :
        x \in {9500, 10000, 11000}}

RECURSIVE AppendAll(_, _, _)
\* add_trades: each trade appended in turn
AppendAll(q, trades, maxlen) ==
    IF trades = <<>> THEN q
    ELSE AppendAll(DequeAppend(q, Head(trades), maxlen), Tail(trades), maxlen)

AddTrade ==
    /\ \E trade \in SizerTrades :
         kelly_trades' = DequeAppend(kelly_trades, trade, SizerLookback)
    /\ op' = [name |-> "add_trade"]
    /\ UNCHANGED <<riskVars, execVars, loop, stats, broker, tasks, calls,
                   instances, clock>>

AddTrades ==
    /\ \E trades \in {<<>>} \cup {<<a, b>> : a, b \in SizerTrades} :
         kelly_trades' = AppendAll(kelly_trades, trades, SizerLookback)
    /\ op' = [name |-> "add_trades"]
    /\ UNCHANGED <<riskVars, execVars, loop, stats, broker, tasks, calls,
                   instances, clock>>

CallCalculate ==
    /\ op' = [name |-> "calculate",
              result |-> Calculate(kelly_trades, EffectiveMinTrades(SizerMinTrades))]
    /\ UNCHANGED <<riskVars, execVars, loopVars>>

KellyNext == AddTrade \/ AddTrades \/ CallCalculate

SpecKelly == RiskInit /\ [][KellyNext]_vars

\* C12: a calculate call made while the history holds fewer than min_trades
\* trades, after any add_trade and add_trades calls, returns is_active false
\* and fractional_kelly 0.01; with min_trades trades or more in the history
\* it returns is_active true.
C12_KellyInactiveBelowMinTrades ==
    op.name = "calculate" =>
        IF Len(kelly_trades) < SizerMinTrades
        THEN ~op.result.is_active /\ op.result.fractional_kelly = <<1, 100>>
        ELSE op.result.is_active

\* calculate on a history one trade short of min_trades, trades having
\* been added
C12_Witness ==
    /\ op.name = "calculate"
    /\ Len(kelly_trades) = SizerMinTrades - 1
    /\ Len(kelly_trades) > 0
    /\ ~op.result.is_active
    /\ op.result.fractional_kelly = <<1, 100>>

\* calculate on a history of exactly min_trades trades that sizes by the
\* formula
C12_WitnessActive ==
    /\ op.name = "calculate"
    /\ Len(kelly_trades) = SizerMinTrades
    /\ op.result.is_active
    /\ op.result.fractional_kelly \notin {<<1, 100>>, <<0, 1>>}

-----------------------------------------------------------------------------
(* OrderFlowAnalyzer.analyze on its own, with the default thresholds       *)
(* +0.3 and -0.3.  The call also appends the imbalance to self._history,   *)
(* which only the average_ofi and ofi_trend properties read; nothing here  *)
(* or in the trading loop reads them and the history is not kept.          *)

\* an analyze that also signals at the thresholds themselves
AnalyzeInclusive(bids, asks) ==
    LET buy_volume == SeqSum(bids)
        sell_volume == SeqSum(asks)
        total == buy_volume + sell_volume
        ofi == IF total = 0 THEN <<0, 1>> ELSE <<buy_volume - sell_volume, total>>
    IN  [ofi |-> ofi,
         signal |-> IF 10 * ofi[1] >= 3 * ofi[2] THEN "BUY"
                    ELSE IF 10 * ofi[1] <= -3 * ofi[2] THEN "SELL"
                    ELSE "HOLD",
         buy_volume |-> buy_volume,
         sell_volume |-> sell_volume]

\* OrderFlowAnalyzer.analyze on the level quantities of the bids and of the
\* asks; ofi is the quotient <<numerator, denominator>> (imbalance_strength
\* is its absolute value)
Analyze(bids, asks) ==
    LET buy_volume == SeqSum(bids)
        sell_volume == SeqSum(asks)
        total == buy_volume + sell_volume
        ofi == IF total = 0 THEN <<0, 1>> ELSE <<buy_volume - sell_volume, total>>
    IN  [ofi |-> ofi,
         signal |-> IF 10 * ofi[1] > 3 * ofi[2] THEN "BUY"
                    ELSE IF 10 * ofi[1] < -3 * ofi[2] THEN "SELL"
                    ELSE "HOLD",
         buy_volume |-> buy_volume,
         sell_volume |-> sell_volume]

\* one call of analyze on a book of up to two levels a side; 13 against 7
\* is an imbalance of exactly 0.3
CallAnalyze ==
    /\ LET quantities == {0, 7, 13, 100}
           levels == {<<>>} \cup {<<q>> : q \in quantities}
                     \cup {<<q, r>> : q, r \in quantities}
       IN  \E bids \in levels, asks \in levels :
             op' = [name |-> "analyze", bids |-> bids, asks |-> asks,
                    result |-> Analyze(bids, asks)]
    /\ UNCHANGED <<riskVars, execVars, loopVars>>

SpecAnalyze == RiskInit /\ [][CallAnalyze]_vars

\* C13: analyze returns the imbalance (bid qty - ask qty) / (bid qty + ask
\* qty) of the book's totals, with BUY exactly when it is above +0.3, SELL
\* exactly when it is below -0.3 and HOLD otherwise; with equal totals, an
\* empty book included, the imbalance is 0 and the signal HOLD.
C13_OfiImbalanceAndSignal ==
    op.name = "analyze" =>
        LET bid_qty == SeqSum(op.bids)
            ask_qty == SeqSum(op.asks)
            num == op.result.ofi[1]
            den == op.result.ofi[2]
        IN  /\ den > 0
            /\ bid_qty + ask_qty > 0 =>
                 num * (bid_qty + ask_qty) = (bid_qty - ask_qty) * den
            /\ op.result.signal = "BUY" <=> 10 * num > 3 * den
            /\ op.result.signal = "SELL" <=> 10 * num < -3 * den
            /\ op.result.signal \in {"BUY", "SELL", "HOLD"}
            /\ bid_qty = ask_qty => num = 0 /\ op.result.signal = "HOLD"

\* a balanced book of two levels a side with quantity on it
C13_Witness ==
    /\ op.name = "analyze"
    /\ SeqSum(op.bids) = SeqSum(op.asks)
    /\ SeqSum(op.bids) > 0
    /\ Len(op.bids) = 2
    /\ op.result.ofi[1] = 0
    /\ op.result.signal = "HOLD"

\* a book whose imbalance is exactly +0.3, which holds
C13_WitnessThreshold ==
    /\ op.name = "analyze"
    /\ SeqSum(op.bids) = 13
    /\ SeqSum(op.asks) = 7
    /\ op.result.signal = "HOLD"

-----------------------------------------------------------------------------
(* VolatilityRegimeDetector.detect on its own.  The call also appends to   *)
(* the detector's two history deques, which no step here or in the trading *)
(* loop reads; they are not kept.                                          *)

\* VolatilityRegimeDetector.detect: volatility_pct as the quotient
\* <<numerator, denominator>>, the multipliers in tenths and in hundredths
\* (recommended_strategy, a fixed text per regime, is left out)
Detect(atr, close_price) ==
    LET regime == ClassifyRegime(atr, close_price)
    IN  [regime |-> regime,
         volatility_pct |-> IF close_price <= 0 THEN <<0, 1>>
                            ELSE <<atr * 100, close_price>>,
         position_size_multiplier |-> PositionSizeMultiplier10(regime),
         stop_loss_multiplier |->
             CASE regime = "EXTREME_LOW_VOL" -> 80
               [] regime = "LOW_VOL" -> 100
               [] regime = "NORMAL" -> 100
               [] regime = "HIGH_VOL" -> 125
               [] regime = "EXTREME_VOL" -> 200]

\* one call of detect, on whole-number ATR and close values: every
\* percentage from 0 to 30 on a close of 100, the 200 on 2200 of the
\* scenario, and closes of zero and below
CallDetect ==
    /\ \E atr \in 0..30 \cup {66, 200}, close_price \in {-100, 0, 100, 2200} :
         op' = [name |-> "detect", atr |-> atr, close_price |-> close_price,
                result |-> Detect(atr, close_price)]
    /\ UNCHANGED <<riskVars, execVars, loopVars>>

SpecDetect == RiskInit /\ [][CallDetect]_vars

\* the regime the thresholds 1/3/6/10 give a volatility of n/d percent
C14_RegimeOf(n, d) ==
    IF n < 1 * d THEN "EXTREME_LOW_VOL"
    ELSE IF n < 3 * d THEN "LOW_VOL"
    ELSE IF n < 6 * d THEN "NORMAL"
    ELSE IF n < 10 * d THEN "HIGH_VOL"
    ELSE "EXTREME_VOL"

C14_WitnessThreshold ==
    /\ op.name = "detect"
    /\ op.atr = 66
    /\ op.close_price = 2200
    /\ op.result.regime = "NORMAL"

-----------------------------------------------------------------------------
(* SignalGenerator.generate on its own, with every input a caller can pass *)

\* one call of generate: strongly bullish, neutral and strongly bearish
\* indicators on a close of 10.000; OFI and MTF results of either direction
\* (signal_strength and agreement_score in hundredths); Kelly fractions of
\* 0, 0.25 and 0.40; any regime, with its multiplier from the regime table
CallGenerate ==
    /\ \E r \in {<<20, 10000, 10300, 10000, 8000>>,
                 <<50, 0, 10000, 10000, 0>>,
                 <<80, -10000, 9700, 10000, 12000>>},
          o \in {<<0, 0>>, <<50, 1>>, <<100, 1>>, <<100, -1>>},
          m \in {<<0, 0>>, <<20, 1>>, <<100, 1>>, <<100, -1>>},
          k \in {0, 25, 40},
          regime \in {"EXTREME_LOW_VOL", "LOW_VOL", "NORMAL", "HIGH_VOL",
                      "EXTREME_VOL"} :
         LET ind == [rsi |-> r[1], macd_hist |-> r[2], ema_9 |-> r[3],
                     ema_21 |-> r[4], vwap |-> r[5], atr |-> 0]
             ofi_result == [signal_strength |-> o[1], direction |-> o[2]]
             mtf_result == [agreement_score |-> m[1], direction |-> m[2]]
             kelly_result == [kelly_fraction |-> k, is_active |-> TRUE]
         IN  op' = [name |-> "generate", indicators |-> ind,
                    ofi_result |-> ofi_result, regime |-> regime,
                    mtf_result |-> mtf_result, kelly_result |-> kelly_result,
                    result |-> Generate(TechnicalScore12(ind, 10000), ofi_result,
                                        regime, mtf_result, kelly_result)]
    /\ UNCHANGED <<riskVars, execVars, loopVars>>

SpecGenerate == RiskInit /\ [][CallGenerate]_vars

\* C15: for every input to generate (any indicator values, OFI strength in
\* [0,1] with direction -1, 0 or 1, MTF agreement in [0,1] with direction
\* -1, 0 or 1, Kelly fraction >= 0, any regime multiplier of the regime
\* table), the returned strength and confidence both lie in [0,1]
\* (0..10000 ten-thousandths).
C15_StrengthAndConfidenceInUnit ==
    op.name = "generate" =>
        /\ op.result.strength \in 0..10000
        /\ op.result.confidence \in 0..10000

\* what generate does keep: confidence within [0,1], strength at or above 0
C15_ConfidenceInUnit ==
    op.name = "generate" =>
        /\ op.result.confidence \in 0..10000
        /\ op.result.strength >= 0

\* every source agreeing on BUY in the EXTREME_LOW_VOL regime: the strength
\* returned is 1.1625
C15_StrengthAboveOne ==
    /\ op.name = "generate"
    /\ op.regime = "EXTREME_LOW_VOL"
    /\ op.ofi_result = [signal_strength |-> 100, direction |-> 1]
    /\ op.mtf_result = [agreement_score |-> 100, direction |-> 1]
    /\ op.result.signal = "BUY"
    /\ op.result.strength = 11625
    /\ op.result.confidence = 10000

-----------------------------------------------------------------------------
(* Further properties of the trading loop, checked under Spec              *)

\* the positions in a call's order record of the entry orders the broker
\* answered with a rejection
RejectedEntries(call) ==
    {i \in 1..Len(call.orders) :
        /\ call.orders[i].purpose = "entry"
        /\ call.orders[i].status = "REJECTED"}

\* C16: when the broker answers an entry order with a rejection (status
\* REJECTED, nothing filled), the call records the rejection in the loop
\* stats (trades_rejected goes up by one, trades_executed stays) and does
\* not retry: it submits no further order.
C16_RejectedEntryRecorded ==
    [][(\E t \in TaskIds : tasks[t].pc = "open_order" /\ tasks'[t].pc = "idle")
         /\ RejectedEntries(op'.call) # {}
       => /\ stats'.trades_rejected = stats.trades_rejected + 1
          /\ stats'.trades_executed = stats.trades_executed
          /\ \A i \in RejectedEntries(op'.call) : i = Len(op'.call.orders)]_vars

\* a call that returned ENTRY on one entry order, which the broker rejected:
\* the position is open, its stop registered and the trade counted as
\* executed
C16_RejectedEntryOpensPosition ==
    /\ CallEnded
    /\ op.action = "ENTRY"
    /\ Len(op.call.orders) = 1
    /\ RejectedEntries(op.call) = {1}
    /\ loop.in_position
    /\ stops[LoopSymbol] # NoStop
    /\ stats.trades_executed = 1
    /\ stats.trades_rejected = 0

-----------------------------------------------------------------------------
(* Several TradingLoops in one process, one per symbol.  Each is built     *)
(* with a RiskFramework of its own (TradingLoop.__init__), so each has its *)
(* own DailyLimitTracker.  A loop is reduced here to the steps that touch  *)
(* that tracker: the entry gate of a tick whose signal would be approved,  *)
(* and the close of its position with a realized P&L.                      *)

\* self.risk.is_trading_allowed() of the loop trading symbol s
InstanceTradingAllowed(s) == ~instances[s].halted

\* process_tick of the loop of symbol s while flat, on a tick whose signal
\* passes every other gate: ENTRY when its risk framework allows trading,
\* a rejection otherwise
InstanceEntryTick(s) ==
    /\ ~instances[s].in_position
    /\ IF InstanceTradingAllowed(s)
       THEN /\ instances' = [instances EXCEPT ![s].in_position = TRUE]
            /\ op' = [name |-> "process_tick", symbol |-> s, action |-> "ENTRY"]
       ELSE /\ UNCHANGED instances
            /\ op' = [name |-> "process_tick", symbol |-> s, action |-> "HOLD"]
    /\ UNCHANGED <<riskVars, execVars, loop, stats, kelly_trades, broker, tasks,
                   calls, clock>>

\* process_tick of the loop of symbol s closing its position: the P&L goes
\* to self.risk.record_trade_pnl, the loop's own tracker
InstanceCloseTick(s) ==
    /\ instances[s].in_position
    /\ \E amt \in PnlAmounts :
         /\ Abs(instances[s].daily_pnl + amt) <= MaxAbsPnl
         /\ instances' = [instances EXCEPT
                            ![s].daily_pnl = @ + amt,
                            ![s].halted = HaltedAfter(@, instances[s].daily_pnl + amt),
                            ![s].in_position = FALSE]
         /\ op' = [name |-> "process_tick", symbol |-> s, action |-> "EXIT"]
    /\ UNCHANGED <<riskVars, execVars, loop, stats, kelly_trades, broker, tasks,
                   calls, clock>>

\* DailyLimitTracker.reset on the tracker of the loop of symbol s
InstanceReset(s) ==
    /\ instances' = [instances EXCEPT ![s].daily_pnl = 0, ![s].halted = FALSE]
    /\ op' = [name |-> "reset", symbol |-> s]
    /\ UNCHANGED <<riskVars, execVars, loop, stats, kelly_trades, broker, tasks,
                   calls, clock>>

InstancesNext ==
    \E s \in Symbols : InstanceEntryTick(s) \/ InstanceCloseTick(s) \/ InstanceReset(s)

SpecInstances == RiskInit /\ [][InstancesNext]_vars

\* C17: the daily-loss halt is process-wide: once the realized losses
\* recorded through any TradingLoop reach the daily limit, is_trading_allowed
\* is false for every TradingLoop of the process, and no loop, whatever its
\* symbol, makes a new entry until reset.
C17_HaltIsProcessWide ==
    (\E s \in Symbols : instances[s].daily_pnl <= -MaxLossAmount) =>
        /\ \A s \in Symbols : ~InstanceTradingAllowed(s)
        /\ ~(op.name = "process_tick" /\ op.action = "ENTRY")

\* what the code does give: the loop that recorded the losses is itself
\* halted
C17_HaltIsPerLoop ==
    \A s \in Symbols :
        instances[s].daily_pnl <= -MaxLossAmount => ~InstanceTradingAllowed(s)

\* one loop has lost the daily limit and is halted, and the loop of the
\* other symbol has just entered
C17_OtherLoopEnters ==
    /\ instances["NIFTY50"].daily_pnl <= -MaxLossAmount
    /\ instances["NIFTY50"].halted
    /\ op = [name |-> "process_tick", symbol |-> "BANKNIFTY", action |-> "ENTRY"]
    /\ instances["BANKNIFTY"].in_position

-----------------------------------------------------------------------------
(* One DailyLimitTracker fed by two pipelines running as coroutines of one *)
(* event loop.  A pipeline that has a realized P&L in hand is suspended at *)
(* an await (in _close_position, the broker's place_order) and calls       *)
(* record_pnl when it is resumed; record_pnl contains no await, so a call  *)
(* runs from its first statement to its last without another coroutine in  *)
(* between.  calls keeps the amounts of the calls made, in order.          *)

\* record_pnl calls made in one run
MaxPnlRecords == 4

\* an accumulator update that adds the amount to the value the pipeline saw
\* before it was suspended
AccumulatedFromSeen(current, seen, amount) == seen + amount

\* self._daily_pnl += amount: the value read is the current one, whatever
\* the accumulator held (seen) when the pipeline was suspended
Accumulated(current, seen, amount) == current + amount

PipelinesInit ==
    /\ TrackersInit
    /\ loop = NewLoop(1)
    /\ stats = NewLoopStats
    /\ kelly_trades = <<>>
    /\ broker = NewBroker("paper")
    /\ instances = [s \in Symbols |-> NewInstance]
    /\ clock = 0
    /\ tasks = [t \in TaskIds |-> IdleTask]
    /\ calls = [record_pnl |-> <<>>]

\* pipeline t, with the P&L of a closed trade in hand (a loss of 1.500 or
\* 0.700, or a gain of 0.300), reaches the await before its record_pnl call
PipelineAwaits(t) ==
    /\ tasks[t].pc = "idle"
    /\ Len(calls.record_pnl)
         + Cardinality({u \in TaskIds : tasks[u].pc = "record_pnl"}) < MaxPnlRecords
    /\ \E amt \in {-1500, -700, 300} :
         LET call == [amount |-> amt, seen |-> daily_pnl]
         IN  /\ tasks' = [tasks EXCEPT ![t] = [pc |-> "record_pnl", call |-> call]]
             /\ op' = [name |-> "await", pc |-> "record_pnl", call |-> call]
    /\ UNCHANGED <<riskVars, execVars, loop, stats, kelly_trades, broker, calls,
                   instances, clock>>

\* pipeline t is resumed and calls DailyLimitTracker.record_pnl
PipelineRecordsPnl(t) ==
    /\ tasks[t].pc = "record_pnl"
    /\ LET call == tasks[t].call
           pnl == Accumulated(daily_pnl, call.seen, call.amount)
       IN  /\ daily_pnl' = pnl
           /\ halted' = HaltedAfter(halted, pnl)
           /\ calls' = [calls EXCEPT !.record_pnl = Append(@, call.amount)]
           /\ op' = [name |-> "record_pnl", amount |-> call.amount]
    /\ tasks' = [tasks EXCEPT ![t] = IdleTask]
    /\ UNCHANGED <<stops, execVars, loop, stats, kelly_trades, broker, instances, clock>>

PipelinesNext ==
    \E t \in TaskIds : PipelineAwaits(t) \/ PipelineRecordsPnl(t)

SpecPipelines == PipelinesInit /\ [][PipelinesNext]_vars

-----------------------------------------------------------------------------
(* ExecutionManager.evaluate on its own, emergency exits included          *)

\* an evaluate that takes no notice of is_emergency
EvaluatePlanNoEmergency(order_quantity, book, atr_pct, is_emergency) ==
    [strategy |-> Evaluate(order_quantity, book, atr_pct),
     predicted_slippage_pct |->
         Predict(order_quantity, book, atr_pct).predicted_bps]

\* ExecutionManager.evaluate(order_quantity, order_book, side, atr_pct,
\* is_emergency): the ExecutionPlan, predicted_slippage_pct =
\* round(predicted_bps / 100, 4) in ten-thousandths
EvaluatePlan(order_quantity, book, atr_pct, is_emergency) ==
    IF is_emergency
    THEN [strategy |-> "MARKET", predicted_slippage_pct |-> 0]
    ELSE [strategy |-> Evaluate(order_quantity, book, atr_pct),
          predicted_slippage_pct |->
              Predict(order_quantity, book, atr_pct).predicted_bps]

\* one call of evaluate: orders of 1 to 100 against an empty book, a book of
\* 100 and a book of 1000 on the side consumed, at an ATR of 0.5%, 1%, 2%
\* and 5%
CallEvaluate ==
    /\ \E order_quantity \in {1, 5, 10, 20, 30, 31, 40, 100},
          book \in {[levels |-> 0, quantity |-> 0],
                    [levels |-> 1, quantity |-> 100],
                    [levels |-> 2, quantity |-> 1000]},
          atr_pct \in {[num |-> 1, den |-> 2], [num |-> 1, den |-> 1],
                       [num |-> 2, den |-> 1], [num |-> 5, den |-> 1]},
          is_emergency \in BOOLEAN :
         op' = [name |-> "evaluate", order_quantity |-> order_quantity,
                order_book |-> book, atr_pct |-> atr_pct,
                is_emergency |-> is_emergency,
                result |-> EvaluatePlan(order_quantity, book, atr_pct,
                                        is_emergency)]
    /\ UNCHANGED <<riskVars, execVars, loopVars>>

SpecEvaluate == RiskInit /\ [][CallEvaluate]_vars

\* C19: evaluate returns MARKET whenever is_emergency is true, whatever the
\* book and the volatility; otherwise MARKET exactly when the predicted
\* slippage is at most 5 bps, LIMIT exactly when it is above 5 and at most
\* 20 bps, and above 20 bps VWAP exactly when liquidity_ratio > 0.3 and TWAP
\* otherwise.
C19_StrategyBySlippage ==
    op.name = "evaluate" =>
        LET pred == Predict(op.order_quantity, op.order_book, op.atr_pct)
            bps == pred.predicted_bps
            strategy == op.result.strategy
        IN  IF op.is_emergency
            THEN strategy = "MARKET"
            ELSE /\ strategy = "MARKET" <=> bps <= 500
                 /\ strategy = "LIMIT" <=> (bps > 500 /\ bps <= 2000)
                 /\ bps > 2000 =>
                      /\ strategy = "VWAP" <=> pred.liquidity_ratio > 3000
                      /\ strategy = "TWAP" <=> pred.liquidity_ratio <= 3000

\* an emergency evaluation of an order the size of the whole book at an ATR
\* of 5%, which without the emergency would be sliced
C19_Witness ==
    /\ op.name = "evaluate"
    /\ op.is_emergency
    /\ op.order_quantity = 100
    /\ op.order_book.quantity = 100
    /\ op.atr_pct = [num |-> 5, den |-> 1]
    /\ Evaluate(op.order_quantity, op.order_book, op.atr_pct) = "VWAP"
    /\ op.result.strategy = "MARKET"

\* 30 bps predicted at a liquidity ratio of exactly 0.3: TWAP
C19_WitnessTwap ==
    /\ op.name = "evaluate"
    /\ ~op.is_emergency
    /\ Predict(op.order_quantity, op.order_book, op.atr_pct)
         = [predicted_bps |-> 3000, liquidity_ratio |-> 3000]
    /\ op.result.strategy = "TWAP"

-----------------------------------------------------------------------------
(* The last node of the decision workflow: generate_signal                   *)

\* the threshold generate_signal compares the confidence with, in
\* ten-thousandths
WorkflowConfidenceThreshold == 6500

\* state.get(key, default) on a TradingDecisionState, a dict that may lack
\* any of its keys
StateGet(state, key, default) ==
    IF key \in DOMAIN state THEN state[key] ELSE default

\* a generate_signal that lets a confidence of exactly the threshold fall
\* to HOLD as well
WorkflowGenerateSignalInclusive(state) ==
    LET confidence == StateGet(state, "confidence", 0)
        signal == IF confidence <= WorkflowConfidenceThreshold THEN "HOLD"
                  ELSE StateGet(state, "final_signal", "HOLD")
    IN  [k \in DOMAIN state \cup {"final_signal", "confidence", "reasoning"} |->
            CASE k = "final_signal" -> signal
              [] k = "confidence" -> confidence
              [] k = "reasoning" ->
                     <<signal, confidence,
                       StateGet(state, "sentiment_score", 0),
                       StateGet(state, "reasoning", "")>>
              [] OTHER -> state[k]]

\* generate_signal(state): the state returned.  The reasoning text is kept
\* as the four values it is formatted from.
WorkflowGenerateSignal(state) ==
    LET confidence == StateGet(state, "confidence", 0)
        signal == IF confidence < WorkflowConfidenceThreshold THEN "HOLD"
                  ELSE StateGet(state, "final_signal", "HOLD")
    IN  [k \in DOMAIN state \cup {"final_signal", "confidence", "reasoning"} |->
            CASE k = "final_signal" -> signal
              [] k = "confidence" -> confidence
              [] k = "reasoning" ->
                     <<signal, confidence,
                       StateGet(state, "sentiment_score", 0),
                       StateGet(state, "reasoning", "")>>
              [] OTHER -> state[k]]

\* one call of generate_signal on a state holding any of the keys the node
\* reads, with a proposed BUY, SELL or HOLD at a confidence of 0, 0.50,
\* 0.6499, 0.65, 0.6501, 0.80 or 1
CallGenerateSignal ==
    /\ \E keys \in SUBSET {"final_signal", "confidence", "reasoning",
                           "sentiment_score"},
          final_signal \in {"BUY", "SELL", "HOLD"},
          confidence \in {0, 5000, WorkflowConfidenceThreshold - 1,
                          WorkflowConfidenceThreshold,
                          WorkflowConfidenceThreshold + 1, 8000,
                          10000} :
         LET full == [symbol |-> LoopSymbol, final_signal |-> final_signal,
                      confidence |-> confidence,
                      reasoning |-> "momentum", sentiment_score |-> -50]
             state == [k \in keys \cup {"symbol"} |-> full[k]]
         IN  op' = [name |-> "generate_signal", state |-> state,
                    result |-> WorkflowGenerateSignal(state)]
    /\ UNCHANGED <<riskVars, execVars, loopVars>>

SpecWorkflow == RiskInit /\ [][CallGenerateSignal]_vars

\* C20: generate_signal forces every proposed signal whose confidence is
\* below 0.65 to HOLD, passes a proposed signal whose confidence is at least
\* 0.65 through unchanged, and does not alter the confidence value.
C20_LowConfidenceForcedToHold ==
    op.name = "generate_signal" =>
        LET proposed == IF "final_signal" \in DOMAIN op.state
                        THEN op.state.final_signal ELSE "HOLD"
            confidence == IF "confidence" \in DOMAIN op.state
                          THEN op.state.confidence ELSE 0
        IN  /\ confidence < 6500 => op.result.final_signal = "HOLD"
            /\ confidence >= 6500 => op.result.final_signal = proposed
            /\ op.result.confidence = confidence
            /\ \A k \in DOMAIN op.state \ {"final_signal", "reasoning"} :
                 op.result[k] = op.state[k]

\* a BUY proposed at a confidence of 0.50 comes out as HOLD at 0.50
C20_Witness ==
    /\ op.name = "generate_signal"
    /\ {"final_signal", "confidence"} \subseteq DOMAIN op.state
    /\ op.state.final_signal = "BUY"
    /\ op.state.confidence = 5000
    /\ op.result.final_signal = "HOLD"
    /\ op.result.confidence = 5000

\* a SELL proposed at a confidence of exactly 0.65 comes out as SELL
C20_WitnessThreshold ==
    /\ op.name = "generate_signal"
    /\ {"final_signal", "confidence"} \subseteq DOMAIN op.state
    /\ op.state.final_signal = "SELL"
    /\ op.state.confidence = 6500
    /\ op.result.final_signal = "SELL"

-----------------------------------------------------------------------------
(* The position size of an approved signal as the trading loop wires it:   *)
(* the Kelly sizer's result goes through the signal into the confirmation. *)

\* _generate_signal: kelly_dict, the fraction in hundredths as generate and
\* _compute_size read it (whole hundredths for the default of 0.01 and for
\* the cap of 0.10; a fraction between two hundredths is cut to the lower)
KellyDict(kelly_result) ==
    [kelly_fraction |-> (kelly_result.fractional_kelly[1] * 100)
                            \div kelly_result.fractional_kelly[2],
     is_active |-> kelly_result.is_active]

\* _generate_signal followed by confirmation.check on a flat loop that is
\* allowed to trade, the sizer being the loop's KellyCriterionSizer()
\* (min_trades from settings) with the history recorded so far
ConfirmSignal ==
    /\ \E ind \in IndicatorReadings, ofi \in OfiReadings :
         LET close == 10000
             kelly_result == Calculate(kelly_trades, EffectiveMinTrades(0))
             signal == Generate(TechnicalScore12(ind, close), OfiDict(ofi),
                                ClassifyRegime(ind.atr, close), NoMtf,
                                KellyDict(kelly_result))
         IN  \E result \in Check(signal, TRUE, 0, MaxPositions) :
               op' = [name |-> "confirm", kelly_result |-> kelly_result,
                      signal |-> signal, result |-> result]
    /\ UNCHANGED <<riskVars, execVars, loopVars>>

SizingNext == AddTrade \/ ConfirmSignal

SpecSizing == RiskInit /\ [][SizingNext]_vars

\* C21: for an approved signal produced while the Kelly sizer has fewer than
\* min_trades trades (is_active false), position_size_pct equals the size
\* computed with no Kelly input, min(max_position_pct, max_position_pct x
\* confidence x regime scale), rounded to hundredths of a percent.
C21_NoKellyCapWhileInactive ==
    (op.name = "confirm" /\ op.result.approved /\ ~op.kelly_result.is_active) =>
        LET scale == CASE op.signal.regime = "EXTREME_LOW_VOL" -> 5
                       [] op.signal.regime = "LOW_VOL" -> 8
                       [] op.signal.regime = "NORMAL" -> 10
                       [] op.signal.regime = "HIGH_VOL" -> 6
                       [] op.signal.regime = "EXTREME_VOL" -> 3
            uncapped == 5 * op.signal.confidence * scale
            size == IF uncapped < 500000 THEN uncapped ELSE 500000
            q == size \div 1000
        IN  op.result.position_size_pct \in {q, q + 1}

\* what the code does instead: the inactive default of 0.01 caps every
\* approved size at 1.00 percent
C21_InactiveDefaultCaps ==
    (op.name = "confirm" /\ op.result.approved /\ ~op.kelly_result.is_active) =>
        op.result.position_size_pct <= 100

\* an approved signal of confidence 0.70, whose size without a Kelly input
\* is 1.75 percent, sized at 1.00 percent with two trades in the history
C21_CappedApproval ==
    /\ op.name = "confirm"
    /\ Len(kelly_trades) = 2
    /\ ~op.kelly_result.is_active
    /\ op.result.approved
    /\ op.signal.confidence = 7000
    /\ op.signal.regime = "EXTREME_LOW_VOL"
    /\ op.result.position_size_pct = 100

-----------------------------------------------------------------------------
(* Further properties of the trading loop, checked under Spec              *)

\* the locals of the call task t is running or has just ended, after a step
CallAfter(t) == IF tasks'[t].pc = "idle" THEN op'.call ELSE tasks'[t].call

C22_WitnessStopped ==
    /\ op.name = "process_tick"
    /\ op.action = "STOPPED"
    /\ op.call.signal = NoSignal
    /\ ~loop.in_position

\* a position held through a tick: a signal on the position's own side
C22_WitnessHeld ==
    /\ op.name = "process_tick"
    /\ op.action = "HOLD_POSITION"
    /\ loop.position_side = "LONG"
    /\ op.call.signal.signal = "BUY"
    /\ op.call.signal.confidence > 4000

\* C23: process_ai_intent never opens a position whose side contradicts the
\* intent it was given: a BUY intent never results in a SHORT entry and a
\* SELL intent never results in a LONG entry.
C23_EntrySideFollowsIntent ==
    (op.name = "process_ai_intent" /\ op.action = "ENTRY") =>
        /\ op.call.intent = "BUY" => loop.position_side # "SHORT"
        /\ op.call.intent = "SELL" => loop.position_side # "LONG"

\* what the code ensures instead: the side opened is that of the fresh
\* signal, which is any signal but HOLD
C23_EntrySideFollowsFreshSignal ==
    (op.name = "process_ai_intent" /\ op.action = "ENTRY") =>
        /\ op.call.signal.signal \in {"BUY", "SELL"}
        /\ loop.position_side = IF op.call.signal.signal = "BUY"
                                THEN "LONG" ELSE "SHORT"

\* a BUY intent that ended in a SHORT entry with a SELL order at the broker
C23_BuyIntentOpensShort ==
    /\ op.name = "process_ai_intent"
    /\ op.action = "ENTRY"
    /\ op.call.intent = "BUY"
    /\ op.call.signal.signal = "SELL"
    /\ loop.in_position
    /\ loop.position_side = "SHORT"
    /\ op.call.orders # <<>>
    /\ op.call.orders[1].side = "SHORT"

\* C24: during a TWAP/VWAP entry the child orders are submitted to the
\* broker one at a time in increasing sequence number, each child's fill is
\* recorded before the next child is submitted, and the parent is finalized
\* (update_parent) only after every child's fill has been recorded.
C24_ChildrenInSequence ==
    /\ \A t \in TaskIds :
         (tasks[t].pc = "open_order" /\ tasks[t].call.strategy \in {"TWAP", "VWAP"}) =>
            LET c == tasks[t].call
                ch == c.sched.children
                k == c.next_child
            IN  /\ k \in 1..Len(ch)
                /\ Len(c.orders) = k - 1
                /\ \A i \in 1..Len(ch) :
                     IF i < k
                     THEN /\ ch[i].status = "FILLED"
                          /\ ch[i].filled_quantity = ch[i].quantity
                          /\ c.orders[i].quantity = ch[i].quantity
                     ELSE ch[i].status = "PENDING" /\ ch[i].filled_quantity = 0
                /\ \A i \in 1..(Len(ch) - 1) : ch[i].sequence < ch[i + 1].sequence
                /\ c.sched.filled_quantity = 0
                /\ ~c.sched.is_complete
    /\ (CallEnded /\ op.call.strategy \in {"TWAP", "VWAP"}) =>
         LET ch == op.call.sched.children
             recorded == {i \in 1..Len(ch) : ch[i].status = "FILLED"}
         IN  IF op.action = "ENTRY"
             THEN /\ recorded = 1..Len(ch)
                  /\ Len(op.call.orders) = Len(ch)
                  /\ \A i \in 1..Len(ch) :
                       op.call.orders[i].quantity = ch[i].quantity
                  /\ op.call.sched.filled_quantity = loop.trade_qty
                  /\ op.call.sched.is_complete
             ELSE op.call.sched.filled_quantity = 0 /\ ~op.call.sched.is_complete

\* a VWAP entry suspended at the submission of its third child, the first
\* two recorded as filled and the parent not yet updated
C24_Witness ==
    \E t \in TaskIds :
        /\ tasks[t].pc = "open_order"
        /\ tasks[t].call.strategy = "VWAP"
        /\ tasks[t].call.next_child = 3
        /\ Len(tasks[t].call.orders) = 2
        /\ tasks[t].call.sched.children[2].status = "FILLED"
        /\ tasks[t].call.sched.children[3].status = "PENDING"
        /\ tasks[t].call.sched.filled_quantity = 0

\* a TWAP entry finished: both children filled, the parent complete
C24_WitnessFinalized ==
    /\ CallEnded
    /\ op.action = "ENTRY"
    /\ op.call.strategy = "TWAP"
    /\ Len(op.call.orders) = 2
    /\ op.call.sched.is_complete

-----------------------------------------------------------------------------
(* A TWAP/VWAP entry against the clock: _open_position creates the         *)
(* schedule and places the child orders; time passes while a place_order   *)
(* is awaited.                                                             *)

\* how long the broker takes to answer one place_order, in seconds
BrokerLatencies == {0, 1, 200, 300}

\* no entry is started after this time
MaxClock == 600

\* _open_position: create_schedule for a TWAP or VWAP plan of the loop's
\* quantity, the children timed from time.time() at the call
CreateScheduleAtClock ==
    /\ IF parent = NoParent THEN TRUE ELSE parent.is_complete
    /\ clock < MaxClock
    /\ \E strategy \in {"TWAP", "VWAP"}, qty \in {30, 40} :
         parent' = CreateSchedule(strategy, qty, 10000)
    /\ op' = [name |-> "create_schedule", created_at |-> clock, submitted |-> <<>>]
    /\ UNCHANGED <<riskVars, partial_seen, loopVars>>

\* _open_position: the next child in the list goes to the broker at the
\* current time, the broker answers after its latency, the fill is
\* recorded, and after the last child the parent is updated
PlaceChildOrder ==
    /\ parent # NoParent
    /\ ~parent.is_complete
    /\ LET pending == {i \in 1..Len(parent.children) :
                          parent.children[i].status = "PENDING"}
           k == CHOOSE i \in pending : \A j \in pending : i <= j
           filled == [parent EXCEPT
                        !.children[k] = FilledChild(@, 10000, @.quantity)]
       IN  /\ pending # {}
           /\ parent' = IF k = Len(parent.children) THEN UpdatedParent(filled)
                        ELSE filled
           /\ op' = [name |-> "place_order", created_at |-> op.created_at,
                     submitted |-> Append(op.submitted,
                                          [sequence |-> parent.children[k].sequence,
                                           at |-> clock])]
    /\ \E latency \in BrokerLatencies : clock' = clock + latency
    /\ UNCHANGED <<riskVars, partial_seen, loop, stats, kelly_trades, broker,
                   tasks, calls, instances>>

ScheduleNext == CreateScheduleAtClock \/ PlaceChildOrder

SpecSchedule == RiskInit /\ [][ScheduleNext]_vars

\* C25: during a TWAP/VWAP execution no child order is submitted to the
\* broker before that child's scheduled_time.
C25_ScheduledTimeGatesSubmission ==
    op.name = "place_order" =>
        \A i \in 1..Len(op.submitted) :
            \A j \in 1..Len(parent.children) :
                parent.children[j].sequence = op.submitted[i].sequence =>
                    op.submitted[i].at * parent.children[j].scheduled_offset.den
                        >= op.created_at * parent.children[j].scheduled_offset.den
                           + parent.children[j].scheduled_offset.num

\* what the code ensures: the children go out in list order, none before
\* the one ahead of it has been answered, the first when the schedule is
\* created
C25_SubmittedInOrder ==
    op.name = "place_order" =>
        /\ op.submitted[1].at = op.created_at
        /\ \A i \in 1..(Len(op.submitted) - 1) :
             /\ op.submitted[i].sequence < op.submitted[i + 1].sequence
             /\ op.submitted[i].at <= op.submitted[i + 1].at

\* a TWAP entry whose second child, scheduled 300 s after the first, went
\* to the broker in the same second as the first
C25_SecondChildAtOnce ==
    /\ op.name = "place_order"
    /\ parent.strategy = "TWAP"
    /\ Len(op.submitted) = 2
    /\ parent.children[2].scheduled_offset = [num |-> 600, den |-> 2]
    /\ op.submitted[2].at = op.created_at
    /\ parent.is_complete

-----------------------------------------------------------------------------
(* The TWAP slice quantities, checked under SpecExec                       *)

\* C26: TWAP slices are equal with the remainder on the last slice: for
\* total quantity Q split into N slices, every slice except the last has
\* quantity floor(Q/N) and the last slice has floor(Q/N) + (Q mod N).
C26_RemainderOnLastSlice ==
    parent.strategy = "TWAP" =>
        LET N == Len(parent.children)
            Q == parent.total_quantity
        IN  \A i \in 1..N :
                parent.children[i].quantity =
                    IF i < N THEN Q \div N ELSE (Q \div N) + (Q % N)

\* what the code does: the first Q mod N slices carry one unit more than
\* the others
C26_RemainderOnFirstSlices ==
    parent.strategy = "TWAP" =>
        LET N == Len(parent.children)
            Q == parent.total_quantity
        IN  \A i \in 1..N :
                parent.children[i].quantity =
                    (Q \div N) + (IF i <= Q % N THEN 1 ELSE 0)

\* 5 split into 3 slices as 2, 2, 1
C26_UnevenSplit ==
    /\ parent.strategy = "TWAP"
    /\ parent.total_quantity = 5
    /\ ChildQuantities(parent) = <<2, 2, 1>>

-----------------------------------------------------------------------------
(* MultiTimeframeAnalyzer.analyze on the state of its three suites         *)

\* StreamingIndicatorSuite.ready: self._tick_count >= 55
ReadyTickCount == 55

Timeframes == <<"1H", "4H", "1D">>

\* analyze, the loop body: the direction one timeframe's suite votes.  A
\* suite is its tick count and the latest ema_9, ema_21, ema_55, MACD fast
\* and slow averages and RSI; macd_signal tells whether the MACD signal
\* line has a value yet.
TimeframeDirection(suite) ==
    LET macd_bullish == /\ suite.macd_signal
                        /\ suite.ema_9 > suite.ema_21
                        /\ suite.macd_fast > suite.macd_slow
        rsi_bullish == suite.rsi < 70 /\ suite.rsi > 30
        rsi_oversold_bounce == suite.rsi < 40
        ema_bullish == suite.ema_9 > suite.ema_21 /\ suite.ema_21 > suite.ema_55
        One(b) == IF b THEN 1 ELSE 0
        bull_sub == One(macd_bullish) + One(rsi_oversold_bounce \/ rsi_bullish)
                        + One(ema_bullish)
        bear_sub == One(~macd_bullish) + One(suite.rsi > 60) + One(~ema_bullish)
    IN  IF suite.tick_count < ReadyTickCount THEN "HOLD"
        ELSE IF bull_sub >= 2 THEN "BUY"
        ELSE IF bear_sub >= 2 THEN "SELL"
        ELSE "HOLD"

\* analyze: the MTFResult, agreement_score and confirmation_strength as
\* fractions <<numerator, denominator>>
MtfAnalyze(suites) ==
    LET directions == [i \in 1..3 |-> TimeframeDirection(suites[i])]
        bullish_count == Cardinality({i \in 1..3 : directions[i] = "BUY"})
        bearish_count == Cardinality({i \in 1..3 : directions[i] = "SELL"})
        total_tf == 3
    IN  [agreement_score |->
             IF bullish_count > bearish_count THEN <<bullish_count, total_tf>>
             ELSE IF bearish_count > bullish_count
             THEN <<total_tf - bearish_count, total_tf>>
             ELSE <<1, 2>>,
         direction |-> IF bullish_count >= 2 THEN "BUY"
                       ELSE IF bearish_count >= 2 THEN "SELL" ELSE "HOLD",
         signals |-> directions,
         is_confirmed |-> bullish_count >= 2 \/ bearish_count >= 2,
         confirmation_strength |-> <<Max(bullish_count, bearish_count), total_tf>>]

\* the suites analyze is called on: one a candle short of ready, and ready
\* ones with the averages stacked bullish, crossed up below the long
\* average, or stacked bearish, at an RSI of 50, 65 or 75
SuiteReadings ==
    {[tick_count |-> ReadyTickCount - 1, ema_9 |-> 103, ema_21 |-> 102,
      ema_55 |-> 101, macd_fast |-> 2, macd_slow |-> 1, macd_signal |-> TRUE,
      rsi |-> 50]}
    \cup {[tick_count |-> ReadyTickCount, ema_9 |-> e[1], ema_21 |-> e[2],
           ema_55 |-> e[3], macd_fast |-> e[4], macd_slow |-> e[5],
           macd_signal |-> TRUE, rsi |-> r] :
             e \in {<<103, 102, 101, 2, 1>>, <<103, 102, 104, 2, 1>>,
                    <<101, 102, 103, 1, 2>>},
             r \in {50, 65, 75}}

CallMtfAnalyze ==
    /\ \E suites \in [1..3 -> SuiteReadings] :
         op' = [name |-> "mtf_analyze", suites |-> suites,
                result |-> MtfAnalyze(suites)]
    /\ UNCHANGED <<riskVars, execVars, loopVars>>

SpecMtf == RiskInit /\ [][CallMtfAnalyze]_vars

\* C27: for every combination of the three timeframe votes,
\* agreement_score and confirmation_strength are both equal to the fraction
\* of timeframes in agreement, max(number voting BUY, number voting
\* SELL)/3.
C27_ScoresAreFractionInAgreement ==
    op.name = "mtf_analyze" =>
        LET buys == Cardinality({i \in 1..3 : op.result.signals[i] = "BUY"})
            sells == Cardinality({i \in 1..3 : op.result.signals[i] = "SELL"})
            agreeing == IF buys > sells THEN buys ELSE sells
        IN  /\ op.result.agreement_score[1] * 3
                   = agreeing * op.result.agreement_score[2]
            /\ op.result.confirmation_strength[1] * 3
                   = agreeing * op.result.confirmation_strength[2]

\* the half of the statement that holds: confirmation_strength is the
\* fraction in agreement, and so is agreement_score when the majority is
\* bullish
C27_ConfirmationStrengthIsFraction ==
    op.name = "mtf_analyze" =>
        LET buys == Cardinality({i \in 1..3 : op.result.signals[i] = "BUY"})
            sells == Cardinality({i \in 1..3 : op.result.signals[i] = "SELL"})
            agreeing == IF buys > sells THEN buys ELSE sells
        IN  /\ op.result.confirmation_strength = <<agreeing, 3>>
            /\ buys > sells => op.result.agreement_score = <<buys, 3>>

\* three ready timeframes all voting SELL: agreement_score 0 with
\* confirmation_strength 1
C27_UnanimousSell ==
    /\ op.name = "mtf_analyze"
    /\ \A i \in 1..3 : op.suites[i].tick_count >= ReadyTickCount
    /\ op.result.signals = <<"SELL", "SELL", "SELL">>
    /\ op.result.is_confirmed
    /\ op.result.agreement_score = <<0, 3>>
    /\ op.result.confirmation_strength = <<3, 3>>

\* no timeframe ready: three HOLD votes, agreement_score 1/2
C27_NoneReady ==
    /\ op.name = "mtf_analyze"
    /\ \A i \in 1..3 : op.suites[i].tick_count < ReadyTickCount
    /\ op.result.signals = <<"HOLD", "HOLD", "HOLD">>
    /\ op.result.agreement_score = <<1, 2>>
    /\ op.result.confirmation_strength = <<0, 3>>

\* C28: after every completed process_tick or process_ai_intent call on one
\* TradingLoop (all ticks carrying the loop's symbol), the loop's
\* in-position flag is true if and only if the risk framework holds a stop
\* entry for that symbol; the number of entries minus the number of closes
\* is always 0 or 1.
C28_FlagMatchesStopEntry ==
    /\ CallEnded =>
         (loop.in_position <=> stops[LoopSymbol] # NoStop)
    /\ loop.trade_counter - Len(kelly_trades) \in {0, 1}
    /\ loop.trade_counter - Len(kelly_trades) = 1 <=> loop.in_position

\* a second entry after an entry and a close: two entries, one close, the
\* flag set and a stop held
C28_Witness ==
    /\ CallEnded
    /\ op.action = "ENTRY"
    /\ loop.trade_counter = 2
    /\ Len(kelly_trades) = 1
    /\ loop.in_position
    /\ stops[LoopSymbol] # NoStop

\* a close whose order the broker refused to take: the call raised, the
\* flag and the stop both still stand
C28_WitnessRaisedClose ==
    /\ CallEnded
    /\ op.raised
    /\ op.call.reason \in {"STOP_LOSS", "SIGNAL_EXIT"}
    /\ loop.in_position
    /\ stops[LoopSymbol] # NoStop

-----------------------------------------------------------------------------
(* The loop with its handlers called as concurrent asyncio tasks: a call   *)
(* may be made while another is suspended at a broker await.               *)

\* number of handler calls made on the loop
MaxConcurrentCalls == 2

ConcurrentNext ==
    \/ \E t \in TaskIds :
         calls.ticks + calls.intents < MaxConcurrentCalls /\ ProcessTick(t)
    \/ \E t \in TaskIds :
         calls.ticks + calls.intents < MaxConcurrentCalls /\ ProcessAiIntent(t)
    \/ \E t \in TaskIds : QuoteReturns(t)
    \/ \E t \in TaskIds : OrderBookReturns(t)
    \/ \E t \in TaskIds : EntryOrderReturns(t)
    \/ \E t \in TaskIds : ExitOrderReturns(t)

SpecConcurrent == Init /\ [][ConcurrentNext]_vars

\* the calls that are between the start and the end of _open_position
EntriesInFlight == {t \in TaskIds : tasks[t].pc \in {"open_book", "open_order"}}

\* C29: when a process_ai_intent call and a process_tick call (or two
\* process_tick calls) on the same TradingLoop interleave at their
\* suspension points, the loop still opens at most one position: a second
\* set of entry orders is never submitted while an earlier entry is in
\* flight or its position is still open.
C29_AtMostOneEntry ==
    /\ Cardinality(EntriesInFlight) <= 1
    /\ loop.in_position => EntriesInFlight = {}
    /\ loop.trade_counter - Len(kelly_trades) <= 1

\* a process_tick and a process_ai_intent both inside _open_position
C29_TwoEntriesInFlight ==
    /\ EntriesInFlight = TaskIds
    /\ \E t, u \in TaskIds :
         /\ tasks[t].call.kind = "process_tick"
         /\ tasks[u].call.kind = "process_ai_intent"

\* two entries and no close: both calls returned ENTRY and the paper
\* broker holds twice the loop's quantity
C29_DoubleEntry ==
    /\ NoCallInFlight
    /\ loop.trade_counter = 2
    /\ stats.trades_executed = 2
    /\ Len(kelly_trades) = 0
    /\ broker.kind = "paper"
    /\ broker.positions[LoopSymbol] # NoPosition
    /\ broker.positions[LoopSymbol].quantity = 2 * loop.trade_qty

-----------------------------------------------------------------------------
(* KellyCriterionSizer.has_edge next to calculate on the same history.     *)

\* has_edge: the value returned, or the ZeroDivisionError of
\* (odds * win_rate - (1 - win_rate)) / odds when odds is 0.0, which it is
\* when there is no winner (avg_win 0) and the losers lost something
HasEdge(trades, min_trades) ==
    LET trades_count == Len(trades)
        winners == SelectSeq(trades, LAMBDA t : TradePnl(t) > 0)
        losers == SelectSeq(trades, LAMBDA t : ~(TradePnl(t) > 0))
        W == Len(winners)
        L == Len(losers)
        sum_win == SumPnl(winners)
        sum_loss == Abs(SumPnl(losers))
        \* odds = avg_win / avg_loss if avg_loss > 0 else 1.0, as on / od
        on == IF sum_loss = 0 THEN 1 ELSE IF W = 0 THEN 0 ELSE sum_win * L
        od == IF sum_loss = 0 THEN 1 ELSE IF W = 0 THEN 1 ELSE W * sum_loss
        \* kelly = (odds * win_rate - (1 - win_rate)) / odds has the sign of
        \* on * W - L * od when odds > 0
        value(v) == [raised |-> FALSE, value |-> v, error |-> ""]
    IN  IF trades_count < min_trades THEN value(FALSE)
        ELSE IF L = 0 THEN value(TRUE)
        ELSE IF on = 0
             THEN [raised |-> TRUE, value |-> FALSE, error |-> "ZeroDivisionError"]
        ELSE value(on * W - L * od > 0)

\* has_edge read on the history recorded so far, and calculate on the same
\* history
CallHasEdge ==
    /\ op' = [name |-> "has_edge",
              result |-> HasEdge(kelly_trades, EffectiveMinTrades(SizerMinTrades)),
              kelly_result |-> Calculate(kelly_trades,
                                         EffectiveMinTrades(SizerMinTrades))]
    /\ UNCHANGED <<riskVars, execVars, loopVars>>

EdgeNext == AddTrade \/ CallHasEdge

SpecEdge == RiskInit /\ [][EdgeNext]_vars

\* calculate's full_kelly > 0: fractional_kelly is min(full_kelly * 0.25,
\* 0.10), positive exactly when full_kelly is
PositiveEdge(kelly_result) ==
    kelly_result.is_active /\ kelly_result.fractional_kelly[1] > 0

AllLosing(trades) ==
    /\ \A i \in 1..Len(trades) : ~(TradePnl(trades[i]) > 0)
    /\ \E i \in 1..Len(trades) : TradePnl(trades[i]) < 0

\* C30: has_edge never raises; on a history of at least min_trades trades it
\* is true exactly when calculate on the same history is active with
\* full_kelly > 0 (all-losing, all-winning and all-breakeven histories
\* included), and below min_trades it is false.
C30_HasEdgeAgreesWithCalculate ==
    op.name = "has_edge" =>
        /\ ~op.result.raised
        /\ op.result.value <=> PositiveEdge(op.kelly_result)

\* what the code does: it agrees with calculate except on a history of
\* min_trades or more without a winner and with a loss, where it raises
C30_HasEdgeUnlessNoWinner ==
    op.name = "has_edge" =>
        IF Len(kelly_trades) >= SizerMinTrades /\ AllLosing(kelly_trades)
        THEN op.result.raised /\ ~PositiveEdge(op.kelly_result)
        ELSE /\ ~op.result.raised
             /\ op.result.value <=> PositiveEdge(op.kelly_result)

\* has_edge on three losing trades, where calculate is active with no edge
C30_AllLosingRaises ==
    /\ op.name = "has_edge"
    /\ Len(kelly_trades) = SizerMinTrades
    /\ \A i \in 1..Len(kelly_trades) : TradePnl(kelly_trades[i]) < 0
    /\ op.result.raised
    /\ op.kelly_result.is_active
    /\ op.kelly_result.fractional_kelly = <<0, 1>>

\* has_edge true on a history with a loser and an edge
C30_EdgeWithLoser ==
    /\ op.name = "has_edge"
    /\ \E i \in 1..Len(kelly_trades) : TradePnl(kelly_trades[i]) < 0
    /\ ~op.result.raised
    /\ op.result.value
    /\ PositiveEdge(op.kelly_result)

====
